---------------------------- MODULE Spec2Model ----------------------------
(***************************************************************************)
(* State-machine model of the session orchestrator of spark-stack:         *)
(*   backend/routers/project_socket.py  (ProjectManager, websocket_endpoint)*)
(*   backend/tasks/tasks.py             (cleanup_inactive_project_managers) *)
(*                                                                         *)
(* The program is a single asyncio event loop.  A task runs without        *)
(* interruption from one suspension point (an await of I/O, of a sleep, of *)
(* asyncio.gather over a non-empty list, of a contended lock) to the next. *)
(* Every action below is one such uninterrupted segment.  When a segment   *)
(* ends at an await that does not suspend (gather over nothing, a          *)
(* coroutine that returns at once), variable cur names the task that keeps *)
(* the loop, and no other task may act until it reaches a real suspension. *)
(***************************************************************************)
EXTENDS Integers, Sequences, FiniteSets, TLC

\* ------------------------------------------------------------- bounds
NumChats == 2
MaxSockets == 3
MaxMsgs == 2
MaxFrags == 1
MaxData == 2
MaxCount == 2
MaxFail == 3
MaxPMs == 3
MaxConns == 3
MaxIndex == 1
MaxDeltas == 3
MaxRequests == 2
MaxItem == 2
MaxLines == 3
MaxCalls == 2
MaxCredits == 2
ChatCost == 1
DailyPool == 1
MaxPoolChats == 2

Chats == 1..NumChats
Sockets == 1..MaxSockets
Msgs == 1..MaxMsgs
PMs == 1..MaxPMs
Conns == 1..MaxConns

\* The chat id of the URL a websocket connects to (websocket_endpoint's chat_id).
ChatOf(s) == ((s - 1) % NumChats) + 1

\* One connection per chat, and the connections of chat 1.
OneEach == {s \in Sockets : s <= NumChats}
SameChat == {s \in Sockets : ChatOf(s) = 1}

\* SandboxStatus
OFFLINE == "OFFLINE"
BUILDING == "BUILDING"
BUILDING_WAITING == "BUILDING_WAITING"
READY == "READY"
WORKING == "WORKING"
WORKING_APPLYING == "WORKING_APPLYING"
SandboxStatus == {OFFLINE, BUILDING, BUILDING_WAITING, READY, WORKING, WORKING_APPLYING}

\* ------------------------------------------------------------- tasks
NoTask == <<"none", 0>>
Recon == <<"recon", 0>>
Sweep == <<"sweep", 0>>
Turn(m) == <<"turn", m>>
Ep(s) == <<"ep", s>>
Tasks == {Recon, Sweep} \cup {Turn(m) : m \in Msgs} \cup {Ep(s) : s \in Sockets}
KillCallers == {Recon, Sweep}

VARIABLES
  \* ProjectManager fields
  chat_sockets,     \* chat id -> list of websockets (a function on the keys)
  chat_agents,      \* chat id -> the agent's sandbox field
  chat_users,       \* chat id -> user
  locked,           \* asyncio.Lock._locked
  waiters,          \* asyncio.Lock._waiters, FIFO
  sandbox_status,
  sandbox,          \* "none" or "sb"
  killed,
  idle,             \* now - last_activity > 30 minutes
  \* environment
  volume,           \* project.modal_volume_label is set
  sock,             \* per websocket: "new", "open", "closed"
  \* task positions
  epc,              \* websocket_endpoint per socket
  rpc,              \* _try_manage_sandbox / _manage_sandbox_task
  kpc,              \* kill(), per caller
  closing,          \* kill(): the sockets whose close() was gathered, per caller
  spc,              \* cleanup_inactive_project_managers
  tpc,              \* on_chat_message per message
  tchat,            \* the chat of each message
  nfrag,            \* fragments the running agent.step has yielded
  em,               \* per task: the broadcast it awaits
  cur,              \* the task that continues without suspension
  \* observation
  nTerminate,       \* calls of DevSandbox.terminate_project_resources
  nKillCast,        \* status broadcasts issued by kill()
  observe,          \* record what each client receives
  seen,             \* per socket: the statuses received
  nfail,            \* SandboxNotReadyException raised so far
  \* the registry of orchestrators (one project) and the tasks that use it
  project_managers, \* the project's entry: 0 (none) or the orchestrator's number
  npm,              \* orchestrators constructed so far
  pm_killed,        \* orchestrator -> its killed flag
  pm_sockets,       \* orchestrator -> endpoints registered in its chat_sockets
  pm_idle,          \* orchestrator -> last_activity is more than 30 minutes old
  pm_kill,          \* orchestrator -> progress of the kill() that runs on it
  wpc,              \* endpoint -> position in websocket_endpoint
  wpm,              \* endpoint -> its local variable pm
  cpc,              \* position of cleanup_inactive_project_managers
  cpm,              \* the orchestrator whose kill() the cleanup awaits
  \* Agent.step, the loop of completion requests
  apc,              \* position in Agent.step
  tool_calls_buffer,\* the tool calls accumulated from the deltas
  oai_chat,         \* the records appended to the conversation by the loop
  deltas,           \* the tool-call deltas the current completion has sent
  ti,               \* position in tool_calls_buffer of the call being executed
  yielded,          \* what the generator has yielded in the loop
  nreq,             \* completion requests issued
  ndelta,           \* tool-call deltas received in the step
  agent_sandbox,    \* the agent's self.sandbox: "none" or "sb"
  tool_sandbox,     \* the sandbox argument of build_run_command_tool
  nrun,             \* commands run by sandbox.run_command in the step
  \* _parse_follow_ups, one call
  ppc,              \* position of the call
  items,            \* the items the text was written from
  content,          \* the argument, a list of characters
  follow_ups,       \* the list returned
  \* the data of the chat turns
  kinds,            \* the fragments agent.step may yield after its first one
  out,              \* per message: the fragments agent.step has yielded
  total_content,    \* per message: the local total_content
  db,               \* per message: the rows committed for its turn
  tfail,            \* per message: what raised in its turn, "none" if nothing
  \* create_chat
  persisted,        \* the committed rows: team credits, daily pool, projects, chats
  calls             \* per request: position, inputs, loaded team, response

pmVars == <<chat_sockets, chat_agents, chat_users, locked, waiters,
            sandbox_status, sandbox, killed, idle>>
envVars == <<volume, sock>>
pcVars == <<epc, rpc, kpc, closing, spc, tpc, tchat, nfrag, em, cur>>
obsVars == <<nTerminate, nKillCast, observe, seen, nfail>>
regVars == <<project_managers, npm, pm_killed, pm_sockets, pm_idle, pm_kill,
             wpc, wpm, cpc, cpm>>
orchVars == <<pmVars, envVars, pcVars, obsVars>>
toolVars == <<agent_sandbox, tool_sandbox, nrun>>
agentVars == <<apc, tool_calls_buffer, oai_chat, deltas, ti, yielded, nreq, ndelta,
               toolVars>>
funVars == <<ppc, items, content, follow_ups>>
turnData == <<kinds, out, total_content, db, tfail>>
chatVars == <<persisted, calls>>
vars == <<orchVars, regVars, agentVars, funVars, turnData, chatVars>>
mapVars == <<chat_sockets, chat_agents, chat_users>>
lockVars == <<locked, waiters>>
killObs == <<nTerminate, nKillCast>>
bootObs == <<observe, seen, nfail>>

\* ------------------------------------------------------------- registry
\* project_managers of one project, the endpoints that look it up and the
\* cleanup task.  An orchestrator is seen here through its killed flag, the
\* endpoints registered in it, its age and the progress of its kill(); every
\* endpoint is for a chat of its own.

\* Line 300, and no endpoint or cleanup running yet.
InitProjectManagers ==
  /\ project_managers = 0
  /\ npm = 0
  /\ pm_killed = [i \in PMs |-> FALSE]
  /\ pm_sockets = [i \in PMs |-> {}]
  /\ pm_idle = [i \in PMs |-> FALSE]
  /\ pm_kill = [i \in PMs |-> "none"]
  /\ wpc = [c \in Conns |-> "new"]
  /\ wpm = [c \in Conns |-> 0]
  /\ cpc = "sleep"
  /\ cpm = 0

\* The orchestrators that were constructed and started and are not killed.
LivePMs == {i \in 1..npm : ~pm_killed[i]}

\* Line 316: the condition under which the endpoint constructs an orchestrator.
NeedsNewPM == project_managers = 0 \/ pm_killed[project_managers]

\* websocket_endpoint, lines 316-323: the entry is reused, or an orchestrator
\* is constructed, started and registered; accept() is awaited.
WsConnect(c) ==
  /\ wpc[c] = "new"
  /\ IF NeedsNewPM
     THEN /\ npm < MaxPMs
          /\ npm' = npm + 1
          /\ project_managers' = npm + 1
          /\ wpm' = [wpm EXCEPT ![c] = npm + 1]
     ELSE /\ wpm' = [wpm EXCEPT ![c] = project_managers]
          /\ UNCHANGED <<npm, project_managers>>
  /\ wpc' = [wpc EXCEPT ![c] = "accept"]
  /\ UNCHANGED <<pm_killed, pm_sockets, pm_idle, pm_kill, cpc, cpm, orchVars, agentVars, funVars, turnData, chatVars>>

\* Line 324: add_chat_socket registers the endpoint in its orchestrator, killed
\* or not, and refreshes last_activity; the endpoint enters its receive loop.
WsAdd(c) ==
  /\ wpc[c] = "accept"
  /\ pm_sockets' = [pm_sockets EXCEPT ![wpm[c]] = @ \cup {c}]
  /\ pm_idle' = [pm_idle EXCEPT ![wpm[c]] = FALSE]
  /\ wpc' = [wpc EXCEPT ![c] = "loop"]
  /\ UNCHANGED <<project_managers, npm, pm_killed, pm_kill, wpm, cpc, cpm, orchVars, agentVars, funVars, turnData, chatVars>>

\* Lines 323-324 are outside the try: accept() or add_chat_socket raising
\* before the registration ends the endpoint without its finally block.
WsAddFails(c) ==
  /\ wpc[c] = "accept"
  /\ wpc' = [wpc EXCEPT ![c] = "dead"]
  /\ UNCHANGED <<project_managers, npm, pm_killed, pm_sockets, pm_idle, pm_kill,
                 wpm, cpc, cpm, orchVars, agentVars, funVars, turnData, chatVars>>

\* Lines 326-348: the loop ends (pm.killed, the client left, a bad frame) and
\* the finally block runs: the project's entry is deleted when the endpoint's
\* own orchestrator is killed, then remove_chat_socket, which raises KeyError
\* when kill() has cleared the maps.
WsFinally(c) ==
  /\ wpc[c] = "loop"
  /\ project_managers' =
       IF pm_killed[wpm[c]] /\ project_managers # 0 THEN 0 ELSE project_managers
  /\ IF c \in pm_sockets[wpm[c]]
     THEN /\ pm_sockets' = [pm_sockets EXCEPT ![wpm[c]] = @ \ {c}]
          /\ wpc' = [wpc EXCEPT ![c] = "closed"]
     ELSE /\ wpc' = [wpc EXCEPT ![c] = "raised"]
          /\ UNCHANGED pm_sockets
  /\ UNCHANGED <<npm, pm_killed, pm_idle, pm_kill, wpm, cpc, cpm, orchVars, agentVars, funVars, turnData, chatVars>>

\* Thirty minutes pass without activity on orchestrator i.
Ages(i) ==
  /\ i \in 1..npm
  /\ ~pm_idle[i]
  /\ pm_idle' = [pm_idle EXCEPT ![i] = TRUE]
  /\ UNCHANGED <<project_managers, npm, pm_killed, pm_sockets, pm_kill, wpc, wpm,
                 cpc, cpm, orchVars, agentVars, funVars, turnData, chatVars>>

\* ProjectManager.is_inactive of orchestrator i, lines 89-93.
pm_is_inactive(i) == (pm_sockets[i] = {} /\ pm_idle[i]) \/ pm_killed[i]

\* Lines 145-147 and 96-100: orchestrator i finds its sandbox down and enters
\* kill(), which sets killed before its first await.
SandboxDown(i) ==
  /\ i \in LivePMs
  /\ pm_killed' = [pm_killed EXCEPT ![i] = TRUE]
  /\ pm_kill' = [pm_kill EXCEPT ![i] = "running"]
  /\ UNCHANGED <<project_managers, npm, pm_sockets, pm_idle, wpc, wpm, cpc, cpm,
                 orchVars, agentVars, funVars, turnData, chatVars>>

\* Lines 103-119: the kill() running on i closes the connections and clears
\* the maps.
KillCompletes(i) ==
  /\ pm_kill[i] = "running"
  /\ pm_sockets' = [pm_sockets EXCEPT ![i] = {}]
  /\ pm_kill' = [pm_kill EXCEPT ![i] = "done"]
  /\ UNCHANGED <<project_managers, npm, pm_killed, pm_idle, wpc, wpm, cpc, cpm,
                 orchVars, agentVars, funVars, turnData, chatVars>>

\* Line 111: closing a connection raises and kill() ends there, the maps as
\* they were.
KillRaises(i) ==
  /\ pm_kill[i] = "running"
  /\ pm_sockets[i] # {}
  /\ pm_kill' = [pm_kill EXCEPT ![i] = "raised"]
  /\ UNCHANGED <<project_managers, npm, pm_killed, pm_sockets, pm_idle, wpc, wpm,
                 cpc, cpm, orchVars, agentVars, funVars, turnData, chatVars>>

\* cleanup_inactive_project_managers, lines 30-33: the project is listed when
\* its entry is inactive.
CleanupScan ==
  /\ cpc = "sleep"
  /\ project_managers # 0
  /\ pm_is_inactive(project_managers)
  /\ cpc' = "listed"
  /\ UNCHANGED <<project_managers, npm, pm_killed, pm_sockets, pm_idle, pm_kill,
                 wpc, wpm, cpm, orchVars, agentVars, funVars, turnData, chatVars>>

\* Line 36, reached at once or after the kill() of the projects listed before
\* this one: the entry of this moment is looked up (KeyError when there is
\* none, which task_handler swallows) and its kill() is awaited; on a killed
\* orchestrator kill() returns at once and line 37 deletes the entry.
CleanupKill ==
  /\ cpc = "listed"
  /\ IF project_managers = 0
     THEN /\ cpc' = "sleep"
          /\ UNCHANGED <<project_managers, pm_killed, pm_kill, cpm>>
     ELSE IF pm_killed[project_managers]
          THEN /\ project_managers' = 0
               /\ cpc' = "sleep"
               /\ UNCHANGED <<pm_killed, pm_kill, cpm>>
          ELSE /\ pm_killed' = [pm_killed EXCEPT ![project_managers] = TRUE]
               /\ pm_kill' = [pm_kill EXCEPT ![project_managers] = "running"]
               /\ cpm' = project_managers
               /\ cpc' = "killing"
               /\ UNCHANGED project_managers
  /\ UNCHANGED <<npm, pm_sockets, pm_idle, wpc, wpm, orchVars, agentVars, funVars, turnData, chatVars>>

\* Line 37: the awaited kill() returned and the entry of this moment is
\* deleted (KeyError when there is none); when kill() raised, the exception
\* ends the cleanup before line 37.
CleanupDel ==
  /\ cpc = "killing"
  /\ pm_kill[cpm] \in {"done", "raised"}
  /\ project_managers' = IF pm_kill[cpm] = "done" THEN 0 ELSE project_managers
  /\ cpc' = "sleep"
  /\ cpm' = 0
  /\ UNCHANGED <<npm, pm_killed, pm_sockets, pm_idle, pm_kill, wpc, wpm, orchVars, agentVars, funVars, turnData, chatVars>>

\* ------------------------------------------------------------- Agent.step
\* The loop of completion requests of Agent.step (agent.py, lines 325-394).
\* A text is the sequence of its pieces; "a" and "b" are the two halves of a
\* JSON object, so that only the text a b is valid JSON.  NoArgs is the value
\* None of function.arguments, NoName the value None (or "") of function.name.
NoName == "none"
NoArgs == [none |-> TRUE, text |-> <<>>]
Args(x) == [none |-> FALSE, text |-> x]
ToolNames == {"run_command", "rm_rf"}
ArgTexts == {<<>>, <<"a">>, <<"b">>, <<"a", "b">>}

\* A tool-call delta of a chunk: tool_call_delta.index, .function.name and
\* .function.arguments.
Deltas ==
  [index : 0..MaxIndex, name : ToolNames \cup {NoName},
   arguments : {NoArgs} \cup {Args(x) : x \in ArgTexts}]

\* A fragment the generator yields, with the part of step that yielded it:
\* "first" (line 286), "plan" (line 297) or "exec" (lines 386, 392).
Frag(by, c, th) == [by |-> by, delta_content |-> c, delta_thinking_content |-> th]
\* Line 386.
Separator == Frag("exec", "\n", "")
\* The text func returns when it was built without a sandbox (line 51).
StillBooting == "This environment is still booting up! Try again in a minute."

\* The state when step reaches its loop, lines 325-326; what it yielded on
\* the way is left out and the tool was built with the sandbox.
InitStep ==
  /\ apc = "request"
  /\ tool_calls_buffer = <<>>
  /\ oai_chat = <<>>
  /\ deltas = <<>>
  /\ ti = 0
  /\ yielded = <<>>
  /\ nreq = 0
  /\ ndelta = 0
  /\ agent_sandbox = "sb"
  /\ tool_sandbox = "sb"
  /\ nrun = 0

\* The state when step is called: the agent may hold the sandbox or not.
InitCalled ==
  /\ apc = "start"
  /\ tool_calls_buffer = <<>>
  /\ oai_chat = <<>>
  /\ deltas = <<>>
  /\ ti = 0
  /\ yielded = <<>>
  /\ nreq = 0
  /\ ndelta = 0
  /\ agent_sandbox \in {"none", "sb"}
  /\ tool_sandbox = "none"
  /\ nrun = 0

\* A step that goes to the plan without its first yield.
C24_NoFirst ==
  /\ apc = "start"
  /\ apc' = "plan"
  /\ UNCHANGED <<tool_calls_buffer, oai_chat, deltas, ti, yielded, nreq, ndelta,
                 toolVars, orchVars, regVars, funVars, turnData, chatVars>>

\* Line 286: the first fragment; then _plan requests its completion.
AFirst ==
  /\ apc = "start"
  /\ yielded' = Append(yielded, Frag("first", "", ""))
  /\ apc' = "plan"
  /\ UNCHANGED <<tool_calls_buffer, oai_chat, deltas, ti, nreq, ndelta,
                 toolVars, orchVars, regVars, funVars, turnData, chatVars>>

\* Lines 274-279 and 296-298: a chunk of the plan whose content is not None
\* (it may be empty) is yielded as thinking content.
APlanDelta ==
  /\ apc = "plan"
  /\ Len(yielded) < MaxDeltas
  /\ \E th \in {"", "p"} : yielded' = Append(yielded, Frag("plan", "", th))
  /\ UNCHANGED <<apc, tool_calls_buffer, oai_chat, deltas, ti, nreq, ndelta,
                 toolVars, orchVars, regVars, funVars, turnData, chatVars>>

\* The plan's completion or its stream raises: the exception leaves step.
APlanFails ==
  /\ apc = "plan"
  /\ apc' = "plan_raised"
  /\ UNCHANGED <<tool_calls_buffer, oai_chat, deltas, ti, yielded, nreq, ndelta,
                 toolVars, orchVars, regVars, funVars, turnData, chatVars>>

\* Lines 300-326: the plan's stream ends; the conversation is set up and the
\* tool is built with the agent's sandbox of this moment.
APlanEnds ==
  /\ apc = "plan"
  /\ apc' = "request"
  /\ tool_sandbox' = agent_sandbox
  /\ UNCHANGED <<tool_calls_buffer, oai_chat, deltas, ti, yielded, nreq, ndelta,
                 agent_sandbox, nrun, orchVars, regVars, funVars, turnData, chatVars>>

\* set_sandbox, called by the reconciliation task while step is suspended.
ASetSandbox ==
  /\ agent_sandbox = "none"
  /\ apc \in {"plan", "request", "stream", "tools"}
  /\ agent_sandbox' = "sb"
  /\ UNCHANGED <<apc, tool_calls_buffer, oai_chat, deltas, ti, yielded, nreq, ndelta,
                 tool_sandbox, nrun, orchVars, regVars, funVars, turnData, chatVars>>

\* Lines 345-349: the buffer is not longer than the index; the delta object
\* itself is appended, and buffer[index] is then read.
AppendsDelta(buf, d) == Len(buf) <= d.index
\* buffer[index] after the append raises IndexError when the index is beyond
\* the new end.
AppendRaises(buf, d) == d.index > Len(buf)

\* Lines 358-365: a truthy arguments fragment is added to the arguments of the
\* buffered call; hasattr is true of every delta object, so arguments that are
\* None stay None and None += str raises TypeError.
ConcatRaises(buf, d) ==
  /\ d.arguments.text # <<>>
  /\ buf[d.index + 1].arguments.none

\* Lines 350-365: the buffered call at the index takes a truthy name and a
\* truthy arguments fragment of the delta.
Merge(call, d) ==
  [id |-> call.id,
   name |-> IF d.name # NoName THEN d.name ELSE call.name,
   arguments |-> IF d.arguments.text # <<>>
                 THEN Args(call.arguments.text \o d.arguments.text)
                 ELSE call.arguments]

\* Lines 328-337: a completion is requested for the conversation; the buffer
\* starts empty.
ARequest ==
  /\ apc = "request"
  /\ nreq < MaxRequests
  /\ nreq' = nreq + 1
  /\ tool_calls_buffer' = <<>>
  /\ deltas' = <<>>
  /\ ti' = 0
  /\ apc' = "stream"
  /\ UNCHANGED <<oai_chat, yielded, ndelta, toolVars, orchVars, regVars, funVars, turnData, chatVars>>

\* Line 329 once more, the requests being counted no further than MaxRequests.
ARequestAgain ==
  /\ apc = "request"
  /\ nreq = MaxRequests
  /\ tool_calls_buffer' = <<>>
  /\ deltas' = <<>>
  /\ ti' = 0
  /\ apc' = "stream"
  /\ UNCHANGED <<oai_chat, yielded, nreq, ndelta, toolVars, orchVars, regVars, funVars, turnData, chatVars>>

\* Lines 339-365: a chunk with one tool-call delta.
AToolDelta(d) ==
  /\ apc = "stream"
  /\ ndelta < MaxDeltas
  /\ ndelta' = ndelta + 1
  /\ deltas' = Append(deltas, d)
  /\ IF AppendsDelta(tool_calls_buffer, d)
     THEN /\ tool_calls_buffer' =
               Append(tool_calls_buffer,
                      [id |-> ndelta + 1, name |-> d.name, arguments |-> d.arguments])
          /\ apc' = IF AppendRaises(tool_calls_buffer, d) THEN "delta_raised"
                    ELSE "stream"
     ELSE IF ConcatRaises(tool_calls_buffer, d)
          THEN /\ tool_calls_buffer' =
                    [tool_calls_buffer EXCEPT ![d.index + 1].name =
                       IF d.name # NoName THEN d.name ELSE @]
               /\ apc' = "delta_raised"
          ELSE /\ tool_calls_buffer' =
                    [tool_calls_buffer EXCEPT ![d.index + 1] = Merge(@, d)]
               /\ apc' = "stream"
  /\ UNCHANGED <<oai_chat, ti, yielded, nreq, toolVars, orchVars, regVars, funVars, turnData, chatVars>>

\* Lines 391-394: a chunk with text and no finish reason is yielded.
AContent ==
  /\ apc = "stream"
  /\ Len(yielded) < MaxDeltas
  /\ yielded' = Append(yielded, Frag("exec", "c", ""))
  /\ UNCHANGED <<apc, tool_calls_buffer, oai_chat, deltas, ti, nreq, ndelta,
                 toolVars, orchVars, regVars, funVars, turnData, chatVars>>

\* Lines 367-374: the chunk whose finish_reason is "tool_calls": the assistant
\* record with the buffered calls is appended and the calls are executed.
AFinishTools ==
  /\ apc = "stream"
  /\ oai_chat' = Append(oai_chat, <<"assistant", tool_calls_buffer>>)
  /\ ti' = 1
  /\ apc' = "tools"
  /\ UNCHANGED <<tool_calls_buffer, deltas, yielded, nreq, ndelta, toolVars, orchVars, regVars, funVars, turnData, chatVars>>

\* json.loads of the arguments of a call: TypeError on None, JSONDecodeError
\* on a text that is not a JSON document.
ValidJson(arguments) == ~arguments.none /\ arguments.text = <<"a", "b">>
\* Lines 223-225: the tool is looked up by name in [run_command].
KnownTool(name) == name = "run_command"
\* _handle_tool_call raises: lines 221 and 224-225.
ToolCallRaises(call) == ~ValidJson(call.arguments) \/ ~KnownTool(call.name)

\* Lines 49-56: func returns the fixed text when the tool was built without a
\* sandbox, the command's output otherwise.
ToolResult(sb) == IF sb = "none" THEN StillBooting ELSE "output"

\* A func that runs the command without looking at its sandbox: on None the
\* attribute access raises.
C26_NoBootGuard ==
  /\ apc = "tools"
  /\ ti <= Len(tool_calls_buffer)
  /\ IF ToolCallRaises(tool_calls_buffer[ti])
     THEN /\ apc' = "tool_raised"
          /\ UNCHANGED <<oai_chat, ti, nrun>>
     ELSE IF tool_sandbox = "none"
          THEN /\ apc' = "run_raised"
               /\ UNCHANGED <<oai_chat, ti, nrun>>
          ELSE /\ oai_chat' = Append(oai_chat, <<"tool", "output",
                                                  tool_calls_buffer[ti].name,
                                                  tool_calls_buffer[ti].id>>)
               /\ nrun' = nrun + 1
               /\ ti' = ti + 1
               /\ apc' = "tools"
  /\ UNCHANGED <<tool_calls_buffer, deltas, yielded, nreq, ndelta, agent_sandbox,
                 tool_sandbox, orchVars, regVars, funVars, turnData, chatVars>>

\* Lines 375-385: the next buffered call is handled; its result is appended as
\* a tool message, or its exception leaves step.
AToolCall ==
  /\ apc = "tools"
  /\ ti <= Len(tool_calls_buffer)
  /\ IF ToolCallRaises(tool_calls_buffer[ti])
     THEN /\ apc' = "tool_raised"
          /\ UNCHANGED <<oai_chat, ti, nrun>>
     ELSE /\ oai_chat' = Append(oai_chat, <<"tool", ToolResult(tool_sandbox),
                                             tool_calls_buffer[ti].name,
                                             tool_calls_buffer[ti].id>>)
          /\ nrun' = IF tool_sandbox = "none" THEN nrun ELSE nrun + 1
          /\ ti' = ti + 1
          /\ apc' = "tools"
  /\ UNCHANGED <<tool_calls_buffer, deltas, yielded, nreq, ndelta, agent_sandbox,
                 tool_sandbox, orchVars, regVars, funVars, turnData, chatVars>>

\* sandbox.run_command raises inside tool.func: the exception leaves step.
AToolRunFails ==
  /\ apc = "tools"
  /\ ti <= Len(tool_calls_buffer)
  /\ ~ToolCallRaises(tool_calls_buffer[ti])
  /\ tool_sandbox # "none"
  /\ apc' = "run_raised"
  /\ UNCHANGED <<tool_calls_buffer, oai_chat, deltas, ti, yielded, nreq, ndelta,
                 toolVars, orchVars, regVars, funVars, turnData, chatVars>>

\* A loop over the buffered calls that may stop before the last of them.
C15_StopsEarly ==
  /\ apc = "tools"
  /\ yielded' = Append(yielded, Separator)
  /\ apc' = "request"
  /\ UNCHANGED <<tool_calls_buffer, oai_chat, deltas, ti, nreq, ndelta, toolVars, orchVars, regVars, funVars, turnData, chatVars>>

\* Line 386: every call was handled; the separator is yielded, the stream
\* has no further chunk and the loop requests the next completion.
AToolsDone ==
  /\ apc = "tools"
  /\ ti > Len(tool_calls_buffer)
  /\ yielded' = Append(yielded, Separator)
  /\ apc' = "request"
  /\ UNCHANGED <<tool_calls_buffer, oai_chat, deltas, ti, nreq, ndelta, toolVars, orchVars, regVars, funVars, turnData, chatVars>>

\* Lines 387-389: the chunk whose finish_reason is "stop" ends the loop.
AFinishStop ==
  /\ apc = "stream"
  /\ apc' = "ended"
  /\ UNCHANGED <<tool_calls_buffer, oai_chat, deltas, ti, yielded, nreq, ndelta,
                 toolVars, orchVars, regVars, funVars, turnData, chatVars>>

\* The stream ends on another finish_reason ("length", "content_filter"):
\* running is still True and line 329 requests a completion again.
AStreamEnds ==
  /\ apc = "stream"
  /\ apc' = "request"
  /\ UNCHANGED <<tool_calls_buffer, oai_chat, deltas, ti, yielded, nreq, ndelta,
                 toolVars, orchVars, regVars, funVars, turnData, chatVars>>

\* ------------------------------------------------------------- _parse_follow_ups
\* re.findall(r"\s*\-\s*(.+)", content).  A text is a list of characters.
NL == "\n"
\* The characters that \s matches, of those a text is written in.
WhiteSpace == {" ", NL}
\* The characters of an item: no newline.
ItemChars == {"a", "-", " "}
Items == UNION {[1..n -> ItemChars] : n \in 1..MaxItem}
ItemLists == UNION {[1..k -> Items] : k \in 0..MaxLines}

\* The text of one line "- <item>" per item, the lines joined by newlines.
RECURSIVE BulletText(_)
BulletText(its) ==
  IF its = <<>> THEN <<>>
  ELSE IF Len(its) = 1 THEN <<"-", " ">> \o its[1]
  ELSE <<"-", " ">> \o its[1] \o <<NL>> \o BulletText(Tail(its))

\* \s* is greedy: it ends at the first character from p on that is not
\* white space (Len(t) + 1 when there is none).
SkipSpace(t, p) ==
  LET S == {q \in p..Len(t) : t[q] \notin WhiteSpace}
  IN IF S = {} THEN Len(t) + 1 ELSE CHOOSE q \in S : \A r \in S : q <= r

\* . matches every character but the newline and + is greedy: the group ends
\* where the line does.
LineEnd(t, p) ==
  LET S == {q \in p..Len(t) : t[q] = NL}
  IN IF S = {} THEN Len(t) + 1 ELSE CHOOSE q \in S : \A r \in S : q <= r

NoMatch == [ok |-> FALSE, from |-> 0, to |-> 0]

\* The pattern \-(.+), which skips no white space.
C18_NoSpaceSkip(t, p) ==
  IF t[p] # "-" \/ p + 1 > Len(t) \/ t[p + 1] = NL THEN NoMatch
  ELSE [ok |-> TRUE, from |-> p + 1, to |-> LineEnd(t, p + 1)]

\* The match of the pattern that starts at position p, if there is one: the
\* group is t[from .. to - 1].  The first \s* cannot give back what it took
\* (no white space is a dash); the second gives back white space, last taken
\* first, until the group has a character to start with.
MatchAt(t, p) ==
  LET d == SkipSpace(t, p)
  IN IF d > Len(t) \/ t[d] # "-" THEN NoMatch
     ELSE LET e == SkipSpace(t, d + 1)
              starts == {q \in (d + 1)..e : q <= Len(t) /\ t[q] # NL}
          IN IF starts = {} THEN NoMatch
             ELSE LET from == CHOOSE q \in starts : \A r \in starts : r <= q
                  IN [ok |-> TRUE, from |-> from, to |-> LineEnd(t, from)]

\* findall: the matches from left to right, each search starting where the
\* match before it ended; the list of the groups.
RECURSIVE FindAll(_, _)
FindAll(t, p) ==
  IF p > Len(t) THEN <<>>
  ELSE LET m == MatchAt(t, p)
       IN IF m.ok THEN <<SubSeq(t, m.from, m.to - 1)>> \o FindAll(t, m.to)
          ELSE FindAll(t, p + 1)

parse_follow_ups(text) == FindAll(text, 1)

\* No call of _parse_follow_ups is modelled.
NoCall ==
  /\ ppc = "none"
  /\ items = <<>>
  /\ content = <<>>
  /\ follow_ups = <<>>

\* _parse_follow_ups is called with a text of bullet lines.
InitCall ==
  /\ ppc = "called"
  /\ items \in ItemLists
  /\ content = BulletText(items)
  /\ follow_ups = <<>>

\* The call returns.
ParseFollowUps ==
  /\ ppc = "called"
  /\ follow_ups' = parse_follow_ups(content)
  /\ ppc' = "returned"
  /\ UNCHANGED <<items, content, orchVars, regVars, agentVars, turnData, chatVars>>

\* ------------------------------------------------------------- helpers
Range(q) == {q[i] : i \in 1..Len(q)}
MapDel(f, k) == [x \in DOMAIN f \ {k} |-> f[x]]
MapPut(f, k, v) == [x \in DOMAIN f \cup {k} |-> IF x = k THEN v ELSE f[x]]
\* list.remove(x) on a list without duplicates
ListRemove(q, x) == SelectSeq(q, LAMBDA y : y # x)
Inc(n) == IF n < MaxCount THEN n + 1 ELSE n
AllSockets(cs) == UNION {Range(cs[c]) : c \in DOMAIN cs}

\* The chat_chunk event of the i-th fragment that agent.step yields in the
\* turn of message m.
Fragment(m, i) == "chunk" \o ToString(m) \o "." \o ToString(i)
Fragments == {Fragment(m, i) : m \in Msgs, i \in 1..(MaxFrags + MaxData + 1)}

IdleEm == [phase |-> "idle", chats |-> {}, pending |-> {}, exc |-> FALSE, data |-> "-"]


\* ------------------------------------------------------------- scheduling
\* gather() has finished for task e: every scheduled send has run.
EmitReturned(e) == em[e].phase = "sending" /\ em[e].pending = {}
\* Task e may run its next segment: it kept the loop, or it was suspended and
\* what it awaited (I/O, or its broadcast) is complete.
CanRun(e) ==
  IF cur = e THEN TRUE
  ELSE cur = NoTask /\ (em[e].phase = "idle" \/ EmitReturned(e))
\* The broadcast task e awaited raised (KeyError out of _try_send).
Raised(e) == em[e].phase = "sending" /\ em[e].exc

\* No broadcast: task e suspends (on I/O) or keeps the loop.
NoEmit(e, suspends) ==
  /\ em' = [em EXCEPT ![e] = IdleEm]
  /\ cur' = IF suspends THEN NoTask ELSE e

\* await self.emit_project(data) by task e, chat_sockets being cs at the call:
\* gather wraps one emit_chat coroutine per key in a task; with no key the
\* await returns at once.
EmitProject(e, data, cs) ==
  IF DOMAIN cs = {}
  THEN NoEmit(e, FALSE)
  ELSE /\ em' = [em EXCEPT ![e] = [phase |-> "sched", chats |-> DOMAIN cs,
                                   pending |-> {}, exc |-> FALSE, data |-> data]]
       /\ cur' = NoTask

\* await self.emit_chat(chat_id, data) by task e itself: the key test and the
\* copy of the socket list run at once; gather over no socket does not suspend.
EmitChat(e, c, data, cs) ==
  IF c \notin DOMAIN cs \/ cs[c] = <<>>
  THEN NoEmit(e, FALSE)
  ELSE /\ em' = [em EXCEPT ![e] = [phase |-> "sending", chats |-> {c},
                                   pending |-> Range(cs[c]), exc |-> FALSE,
                                   data |-> data]]
       /\ cur' = NoTask

\* The emit_chat tasks that emit_project gathered run, one after the other in
\* the same loop iteration: each tests its key and copies the socket list.
EmitChatRun(e) ==
  /\ cur = NoTask
  /\ em[e].phase = "sched"
  /\ em' = [em EXCEPT ![e].phase = "sending",
                      ![e].pending = UNION {Range(chat_sockets[c]) :
                                            c \in em[e].chats \cap DOMAIN chat_sockets}]
  /\ UNCHANGED <<pmVars, envVars, epc, rpc, kpc, closing, spc, tpc, tchat, nfrag,
                 cur, obsVars>>
  /\ UNCHANGED <<regVars, agentVars, funVars, turnData, chatVars>>

\* _try_send(socket) of a broadcast of task e: send_json succeeds on an open
\* connection; on a closed one it raises and the socket is removed from the
\* chat's list (ValueError swallowed, KeyError not).
PruneSockets(cs, c, s) == [cs EXCEPT ![c] = ListRemove(@, s)]

EmitSend(e, s) ==
  /\ cur = NoTask
  /\ em[e].phase = "sending"
  /\ s \in em[e].pending
  /\ IF sock[s] = "open"
     THEN /\ em' = [em EXCEPT ![e].pending = @ \ {s}]
          /\ seen' = IF observe /\ em[e].data \in SandboxStatus \cup Fragments
                     THEN [seen EXCEPT ![s] = Append(@, em[e].data)]
                     ELSE seen
          /\ UNCHANGED chat_sockets
     ELSE /\ seen' = seen
          /\ IF ChatOf(s) \in DOMAIN chat_sockets
             THEN /\ chat_sockets' = PruneSockets(chat_sockets, ChatOf(s), s)
                  /\ em' = [em EXCEPT ![e].pending = @ \ {s}]
             ELSE /\ em' = [em EXCEPT ![e].pending = @ \ {s}, ![e].exc = TRUE]
                  /\ UNCHANGED chat_sockets
  /\ UNCHANGED <<chat_agents, chat_users, locked, waiters, sandbox_status, sandbox,
                 killed, idle, envVars, epc, rpc, kpc, closing, spc, tpc, tchat,
                 nfrag, cur, nTerminate, nKillCast, observe, nfail>>
  /\ UNCHANGED <<regVars, agentVars, funVars, turnData, chatVars>>


\* ------------------------------------------------------------- websocket_endpoint
\* Lines 316-323: the endpoint takes the registered manager, which it does only
\* while that manager is not killed, and awaits websocket.accept().
EpConnect(s) ==
  /\ cur = NoTask
  /\ epc[s] = "new"
  /\ ~killed
  /\ epc' = [epc EXCEPT ![s] = "accepted"]
  /\ sock' = [sock EXCEPT ![s] = "open"]
  /\ UNCHANGED <<pmVars, volume, rpc, kpc, closing, spc, tpc, tchat, nfrag, em, cur,
                 obsVars>>
  /\ UNCHANGED <<regVars, agentVars, funVars, turnData, chatVars>>

\* add_chat_socket(chat_id, websocket).  The queries and the Agent constructor
\* of a first connection may raise, before any map is written; the exception
\* leaves the endpoint ahead of its try block.  start() created the
\* reconciliation task before accept() was awaited, so that task has run its
\* first segment by now.
EpAdd(s) ==
  /\ cur = NoTask
  /\ epc[s] = "accepted"
  /\ rpc # "start"
  /\ idle' = FALSE
  /\ \/ /\ ChatOf(s) \notin DOMAIN chat_sockets
        /\ epc' = [epc EXCEPT ![s] = "failed"]
        /\ UNCHANGED <<mapVars, em, cur>>
     \/ LET c == ChatOf(s)
            fresh == c \notin DOMAIN chat_sockets
            agents == IF fresh THEN MapPut(chat_agents, c, sandbox) ELSE chat_agents
            users == IF fresh THEN MapPut(chat_users, c, c) ELSE chat_users
            socks0 == IF fresh THEN MapPut(chat_sockets, c, <<>>) ELSE chat_sockets
            socks == [socks0 EXCEPT ![c] = Append(@, s)]
        IN /\ chat_agents' = agents
           /\ chat_users' = users
           /\ chat_sockets' = socks
           /\ EmitProject(Ep(s), sandbox_status, socks)
           /\ epc' = [epc EXCEPT ![s] = "adding"]
  /\ UNCHANGED <<lockVars, sandbox_status, sandbox, killed, envVars, rpc, kpc,
                 closing, spc, tpc, tchat, nfrag, obsVars>>
  /\ UNCHANGED <<regVars, agentVars, funVars, turnData, chatVars>>

\* add_chat_socket returns (or its broadcast raised); the loop tests pm.killed
\* and awaits receive_text().
EpAdded(s) ==
  /\ epc[s] = "adding"
  /\ CanRun(Ep(s))
  /\ IF Raised(Ep(s))
     THEN /\ epc' = [epc EXCEPT ![s] = "failed"]
          /\ NoEmit(Ep(s), TRUE)
     ELSE IF killed
          THEN /\ epc' = [epc EXCEPT ![s] = "finally"]
               /\ NoEmit(Ep(s), FALSE)
          ELSE /\ epc' = [epc EXCEPT ![s] = "recv"]
               /\ NoEmit(Ep(s), TRUE)
  /\ UNCHANGED <<pmVars, envVars, rpc, kpc, closing, spc, tpc, tchat, nfrag, obsVars>>
  /\ UNCHANGED <<regVars, agentVars, funVars, turnData, chatVars>>

\* receive_text() returns a frame: it parses and a task running
\* on_chat_message is created, or it does not parse and the loop is left.
FreeMsgs == {m \in Msgs : tpc[m] = "none" /\ \A k \in Msgs : k < m => tpc[k] # "none"}

EpReceive(s) ==
  /\ cur = NoTask
  /\ epc[s] = "recv"
  /\ sock[s] = "open"
  /\ \/ /\ \E m \in FreeMsgs :
             /\ tpc' = [tpc EXCEPT ![m] = "created"]
             /\ tchat' = [tchat EXCEPT ![m] = ChatOf(s)]
        /\ IF killed
           THEN epc' = [epc EXCEPT ![s] = "finally"] /\ cur' = Ep(s)
           ELSE UNCHANGED <<epc, cur>>
     \/ /\ epc' = [epc EXCEPT ![s] = "finally"]
        /\ cur' = Ep(s)
        /\ UNCHANGED <<tpc, tchat>>
  /\ UNCHANGED <<pmVars, envVars, rpc, kpc, closing, spc, nfrag, em, obsVars>>
  /\ UNCHANGED <<regVars, agentVars, funVars, turnData, chatVars>>

\* receive_text() raises on a connection that is closed (WebSocketDisconnect,
\* RuntimeError).
EpDisconnected(s) ==
  /\ cur = NoTask
  /\ epc[s] = "recv"
  /\ sock[s] = "closed"
  /\ epc' = [epc EXCEPT ![s] = "finally"]
  /\ cur' = Ep(s)
  /\ UNCHANGED <<pmVars, envVars, rpc, kpc, closing, spc, tpc, tchat, nfrag, em,
                 obsVars>>
  /\ UNCHANGED <<regVars, agentVars, funVars, turnData, chatVars>>

\* remove_chat_socket(chat_id, websocket): TRUE when it raises KeyError.
RemoveRaises(cs, ca, cu, c, s) ==
  \/ c \notin DOMAIN cs
  \/ /\ ListRemove(cs[c], s) = <<>>
     /\ (c \notin DOMAIN ca \/ c \notin DOMAIN cu)
RemoveSockets(cs, c, s) ==
  IF c \notin DOMAIN cs THEN cs
  ELSE IF ListRemove(cs[c], s) = <<>> THEN MapDel(cs, c)
  ELSE [cs EXCEPT ![c] = ListRemove(@, s)]
RemoveEntry(cs, f, c, s) ==
  IF c \in DOMAIN cs /\ ListRemove(cs[c], s) = <<>> /\ c \in DOMAIN f
  THEN MapDel(f, c) ELSE f

\* The finally block: remove_chat_socket, then websocket.close() and
\* db.close(), which are skipped when remove_chat_socket raised.
EpFinally(s) ==
  /\ cur = Ep(s)
  /\ epc[s] = "finally"
  /\ LET c == ChatOf(s) IN
       /\ chat_sockets' = RemoveSockets(chat_sockets, c, s)
       /\ chat_agents' = RemoveEntry(chat_sockets, chat_agents, c, s)
       /\ chat_users' = IF c \in DOMAIN chat_agents
                        THEN RemoveEntry(chat_sockets, chat_users, c, s)
                        ELSE chat_users
       /\ IF RemoveRaises(chat_sockets, chat_agents, chat_users, c, s)
          THEN /\ epc' = [epc EXCEPT ![s] = "raised"]
               /\ UNCHANGED sock
          ELSE /\ epc' = [epc EXCEPT ![s] = "done"]
               /\ sock' = [sock EXCEPT ![s] = "closed"]
  /\ cur' = NoTask
  /\ UNCHANGED <<lockVars, sandbox_status, sandbox, killed, idle, volume, rpc, kpc,
                 closing, spc, tpc, tchat, nfrag, em, obsVars>>
  /\ UNCHANGED <<regVars, agentVars, funVars, turnData, chatVars>>

\* The client goes away.
ClientDisconnect(s) ==
  /\ cur = NoTask
  /\ sock[s] = "open"
  /\ sock' = [sock EXCEPT ![s] = "closed"]
  /\ UNCHANGED <<pmVars, volume, pcVars, obsVars>>
  /\ UNCHANGED <<regVars, agentVars, funVars, turnData, chatVars>>

\* A lock whose acquire() returns at once even when it is held.
C3_LockNeverHeld == TRUE

\* ------------------------------------------------------------- turn data
\* A Partial Message Fragment.  persist is not a field of the
\* PartialChatMessage of agent.py; _handle_chat_message reads it (line 224).
FragKinds ==
  [persist : BOOLEAN, delta_content : {"", "x", "y"}, delta_thinking_content : {"", "t"}]
\* The one kind of fragment of the runs that do not look at the data.
PlainKinds == {[persist |-> TRUE, delta_content |-> "x", delta_thinking_content |-> ""]}
\* Agent.step, line 286: the first fragment.
InitialFragment == [persist |-> TRUE, delta_content |-> "", delta_thinking_content |-> ""]

\* An accumulation that does not look at persist.
C22_IgnoresPersist(total, f) == total \o f.delta_content

\* Lines 224-225.
Accumulate(total, f) == IF f.persist THEN total \o f.delta_content ELSE total

NoRows == [user |-> FALSE, assistant |-> <<>>]

InitTurnData ==
  /\ out = [m \in Msgs |-> <<>>]
  /\ total_content = [m \in Msgs |-> ""]
  /\ db = [m \in Msgs |-> NoRows]
  /\ tfail = [m \in Msgs |-> "none"]

\* agent.step yields at most this many fragments after its first one.
FragLimit == IF kinds = PlainKinds THEN MaxFrags ELSE MaxData

\* _handle_chat_message returns or raises in the turn of m: its locals are gone.
NoLocals(m) ==
  /\ out' = [out EXCEPT ![m] = <<>>]
  /\ total_content' = [total_content EXCEPT ![m] = ""]

\* The exception that ends _handle_chat_message in the turn of m came from
\* why ("step": agent.step or the generator it returns; "other": anything
\* else); it is the e of the except clause.
Fails(m, why) ==
  /\ tfail' = [tfail EXCEPT ![m] = why]
  /\ NoLocals(m)
  /\ UNCHANGED <<kinds, db>>

\* ------------------------------------------------------------- on_chat_message
\* asyncio.Lock.acquire() takes the lock at once when it is free and nobody
\* waits; otherwise the caller joins the FIFO of waiters and suspends.
\* It returns True in both cases: there is no busy result.
LockAvailable == ~locked /\ waiters = <<>>

\* on_chat_message begins: last_activity, then lock.acquire().
TAcquire(m) ==
  /\ cur = NoTask
  /\ tpc[m] = "created"
  /\ idle' = FALSE
  /\ IF LockAvailable
     THEN /\ locked' = TRUE
          /\ tpc' = [tpc EXCEPT ![m] = "start"]
          /\ cur' = Turn(m)
          /\ UNCHANGED waiters
     ELSE /\ waiters' = Append(waiters, m)
          /\ tpc' = [tpc EXCEPT ![m] = "waitlock"]
          /\ UNCHANGED <<locked, cur>>
  /\ UNCHANGED <<mapVars, sandbox_status, sandbox, killed, envVars, epc, rpc, kpc,
                 closing, spc, tchat, nfrag, em, obsVars>>
  /\ UNCHANGED <<regVars, agentVars, funVars, turnData, chatVars>>

\* release() woke the first waiter: its acquire() returns True.
TWake(m) ==
  /\ cur = NoTask
  /\ tpc[m] = "waitlock"
  /\ ~locked
  /\ waiters # <<>>
  /\ Head(waiters) = m
  /\ locked' = TRUE
  /\ waiters' = Tail(waiters)
  /\ tpc' = [tpc EXCEPT ![m] = "start"]
  /\ cur' = Turn(m)
  /\ UNCHANGED <<mapVars, sandbox_status, sandbox, killed, idle, envVars, epc, rpc,
                 kpc, closing, spc, tchat, nfrag, em, obsVars>>
  /\ UNCHANGED <<regVars, agentVars, funVars, turnData, chatVars>>

\* _handle_chat_message, lines 198-199: WORKING and its broadcast.
TStart(m) ==
  /\ cur = Turn(m)
  /\ tpc[m] = "start"
  /\ sandbox_status' = WORKING
  /\ EmitProject(Turn(m), WORKING, chat_sockets)
  /\ tpc' = [tpc EXCEPT ![m] = "persist_in"]
  /\ nfrag' = 0
  /\ UNCHANGED <<mapVars, lockVars, sandbox, killed, idle, envVars, epc, rpc, kpc,
                 closing, spc, tchat, obsVars>>
  /\ UNCHANGED <<regVars, agentVars, funVars, turnData, chatVars>>

\* An exception inside _handle_chat_message reaches the except clause of
\* _try_handle_chat_message without suspension.
ToExcept(m) ==
  /\ tpc' = [tpc EXCEPT ![m] = "except"]
  /\ NoEmit(Turn(m), FALSE)

\* Lines 201-210: the inbound message is persisted and broadcast to the chat.
TPersistIn(m) ==
  /\ tpc[m] = "persist_in"
  /\ CanRun(Turn(m))
  /\ IF Raised(Turn(m))
     THEN ToExcept(m) /\ Fails(m, "other")
     ELSE /\ EmitChat(Turn(m), tchat[m], "chat_update", chat_sockets)
          /\ tpc' = [tpc EXCEPT ![m] = "agent"]
          /\ db' = [db EXCEPT ![m].user = TRUE]
          /\ UNCHANGED <<kinds, out, total_content, tfail>>
  /\ UNCHANGED <<pmVars, envVars, epc, rpc, kpc, closing, spc, tchat, nfrag, obsVars>>
  /\ UNCHANGED <<regVars, agentVars, funVars, chatVars>>

\* Lines 212-233: the agent of the chat is looked up (KeyError without a
\* session), the history is read, agent.step is called and its first fragment,
\* which needs no completion request, is broadcast.
TAgent(m) ==
  /\ tpc[m] = "agent"
  /\ CanRun(Turn(m))
  /\ IF Raised(Turn(m)) \/ tchat[m] \notin DOMAIN chat_agents
     THEN /\ ToExcept(m)
          /\ UNCHANGED nfrag
          /\ Fails(m, "other")
     ELSE /\ EmitChat(Turn(m), tchat[m], Fragment(m, 1), chat_sockets)
          /\ tpc' = [tpc EXCEPT ![m] = "stream"]
          /\ nfrag' = 1
          /\ out' = [out EXCEPT ![m] = <<InitialFragment>>]
          /\ total_content' = [total_content EXCEPT ![m] = Accumulate("", InitialFragment)]
          /\ UNCHANGED <<kinds, db, tfail>>
  /\ UNCHANGED <<pmVars, envVars, epc, rpc, kpc, closing, spc, tchat, obsVars>>
  /\ UNCHANGED <<regVars, agentVars, funVars, chatVars>>

\* A loop body that goes on to the next fragment without awaiting the
\* broadcast of the chunk: the sends still pending are abandoned.
C12_ChunkNotAwaited(m) ==
  /\ tpc[m] = "stream"
  /\ cur = NoTask
  /\ tpc' = [tpc EXCEPT ![m] = "gen"]
  /\ NoEmit(Turn(m), TRUE)
  /\ UNCHANGED <<pmVars, envVars, epc, rpc, kpc, closing, spc, tchat, nfrag, obsVars>>
  /\ UNCHANGED <<regVars, agentVars, funVars, turnData, chatVars>>

\* The chunk was broadcast; the generator is resumed and awaits the
\* completion service.
TStream(m) ==
  /\ tpc[m] = "stream"
  /\ CanRun(Turn(m))
  /\ IF Raised(Turn(m))
     THEN ToExcept(m) /\ Fails(m, "other")
     ELSE /\ tpc' = [tpc EXCEPT ![m] = "gen"]
          /\ NoEmit(Turn(m), TRUE)
          /\ UNCHANGED turnData
  /\ UNCHANGED <<pmVars, envVars, epc, rpc, kpc, closing, spc, tchat, nfrag, obsVars>>
  /\ UNCHANGED <<regVars, agentVars, funVars, chatVars>>

\* The generator yields the next fragment, raises, or ends; at its end the
\* assistant message is persisted (lines 235-240) and suggest_follow_ups is
\* awaited.
TGen(m) ==
  /\ cur = NoTask
  /\ tpc[m] = "gen"
  /\ \/ /\ nfrag < FragLimit + 1
        /\ nfrag' = nfrag + 1
        /\ EmitChat(Turn(m), tchat[m], Fragment(m, nfrag + 1), chat_sockets)
        /\ tpc' = [tpc EXCEPT ![m] = "stream"]
        /\ \E f \in kinds :
             /\ out' = [out EXCEPT ![m] = Append(@, f)]
             /\ total_content' = [total_content EXCEPT ![m] = Accumulate(@, f)]
        /\ UNCHANGED <<kinds, db, tfail>>
     \/ /\ tpc' = [tpc EXCEPT ![m] = "followups"]
        /\ NoEmit(Turn(m), TRUE)
        /\ db' = [db EXCEPT ![m].assistant = Append(@, total_content[m])]
        /\ UNCHANGED <<nfrag, kinds, out, total_content, tfail>>
  /\ UNCHANGED <<pmVars, envVars, epc, rpc, kpc, closing, spc, tchat, obsVars>>
  /\ UNCHANGED <<regVars, agentVars, funVars, chatVars>>

\* suggest_follow_ups returns or raises; lines 244-252: the final chat_update.
TFollowUps(m) ==
  /\ cur = NoTask
  /\ tpc[m] = "followups"
  /\ EmitChat(Turn(m), tchat[m], "chat_update", chat_sockets)
  /\ tpc' = [tpc EXCEPT ![m] = "final"]
  /\ UNCHANGED <<pmVars, envVars, epc, rpc, kpc, closing, spc, tchat, nfrag, obsVars>>
  /\ UNCHANGED <<regVars, agentVars, funVars, turnData, chatVars>>

\* Lines 254-258: READY, then the snapshot is read from self.sandbox
\* (AttributeError while it is None).
TFinal(m) ==
  /\ tpc[m] = "final"
  /\ CanRun(Turn(m))
  /\ IF Raised(Turn(m))
     THEN ToExcept(m) /\ UNCHANGED sandbox_status /\ Fails(m, "other")
     ELSE /\ sandbox_status' = READY
          /\ IF sandbox = "none"
             THEN ToExcept(m) /\ Fails(m, "other")
             ELSE /\ tpc' = [tpc EXCEPT ![m] = "refresh"]
                  /\ NoEmit(Turn(m), TRUE)
                  /\ UNCHANGED turnData
  /\ UNCHANGED <<mapVars, lockVars, sandbox, killed, idle, envVars, epc, rpc, kpc,
                 closing, spc, tchat, nfrag, obsVars>>
  /\ UNCHANGED <<regVars, agentVars, funVars, chatVars>>

\* Line 259: the snapshot arrived (or reading it raised); the status of this
\* moment is broadcast.
TRefresh(m) ==
  /\ cur = NoTask
  /\ tpc[m] = "refresh"
  /\ EmitProject(Turn(m), sandbox_status, chat_sockets)
  /\ tpc' = [tpc EXCEPT ![m] = "endemit"]
  /\ UNCHANGED <<pmVars, envVars, epc, rpc, kpc, closing, spc, tchat, nfrag,
                 obsVars>>
  /\ UNCHANGED <<regVars, agentVars, funVars, turnData, chatVars>>

\* What can raise where the turn is, besides a broadcast: a database call
\* (lines 202-204, 213-218, 237-240), agent.step and the generator it returns
\* (the plan, a completion, a tool call), suggest_follow_ups, the snapshot
\* refresh.
FailuresAt(pc) ==
  CASE pc \in {"persist_in", "followups", "refresh"} -> {"other"}
    [] pc \in {"agent", "gen"} -> {"step", "other"}
    [] OTHER -> {}

\* An except clause that saves what was accumulated when the turn raised.
C21_PersistsPartial(m) ==
  /\ \/ cur = NoTask /\ tpc[m] \in {"gen", "followups", "refresh"}
     \/ CanRun(Turn(m)) /\ ~Raised(Turn(m)) /\ tpc[m] \in {"persist_in", "agent"}
  /\ ToExcept(m)
  /\ \E why \in FailuresAt(tpc[m]) : tfail' = [tfail EXCEPT ![m] = why]
  /\ db' = [db EXCEPT ![m].assistant = Append(@, total_content[m])]
  /\ NoLocals(m)
  /\ UNCHANGED kinds
  /\ UNCHANGED <<pmVars, envVars, epc, rpc, kpc, closing, spc, tchat, nfrag, obsVars>>
  /\ UNCHANGED <<regVars, agentVars, funVars, chatVars>>

\* Something inside _handle_chat_message raises: a database call (lines
\* 202-204, 213-218, 237-240), agent.step or the generator it returns, a tool
\* call inside it, suggest_follow_ups, or the snapshot refresh.
TFails(m) ==
  /\ \/ cur = NoTask /\ tpc[m] \in {"gen", "followups", "refresh"}
     \/ CanRun(Turn(m)) /\ ~Raised(Turn(m)) /\ tpc[m] \in {"persist_in", "agent"}
  /\ ToExcept(m)
  /\ \E why \in FailuresAt(tpc[m]) : Fails(m, why)
  /\ UNCHANGED <<pmVars, envVars, epc, rpc, kpc, closing, spc, tchat, nfrag, obsVars>>
  /\ UNCHANGED <<regVars, agentVars, funVars, chatVars>>

\* on_chat_message line 276: lock.release(), reached only when
\* _try_handle_chat_message returned.
Release(m) ==
  /\ locked' = FALSE
  /\ tpc' = [tpc EXCEPT ![m] = "done"]
  /\ NoEmit(Turn(m), TRUE)

TEnd(m) ==
  /\ tpc[m] = "endemit"
  /\ CanRun(Turn(m))
  /\ IF Raised(Turn(m))
     THEN ToExcept(m) /\ UNCHANGED locked /\ Fails(m, "other")
     ELSE Release(m) /\ NoLocals(m) /\ UNCHANGED <<kinds, db, tfail>>
  /\ UNCHANGED <<mapVars, waiters, sandbox_status, sandbox, killed, idle, envVars,
                 epc, rpc, kpc, closing, spc, tchat, nfrag, obsVars>>
  /\ UNCHANGED <<regVars, agentVars, funVars, chatVars>>

\* Lines 264-269: the except clause sets READY and broadcasts it.
TExcept(m) ==
  /\ cur = Turn(m)
  /\ tpc[m] = "except"
  /\ sandbox_status' = READY
  /\ EmitProject(Turn(m), READY, chat_sockets)
  /\ tpc' = [tpc EXCEPT ![m] = "exceptemit"]
  /\ UNCHANGED <<mapVars, lockVars, sandbox, killed, idle, envVars, epc, rpc, kpc,
                 closing, spc, tchat, nfrag, obsVars>>
  /\ UNCHANGED <<regVars, agentVars, funVars, turnData, chatVars>>

\* The broadcast of the except clause returns, and the lock is released; or
\* it raises, the exception leaves on_chat_message and line 276 is not reached.
TExceptEnd(m) ==
  /\ tpc[m] = "exceptemit"
  /\ CanRun(Turn(m))
  /\ IF Raised(Turn(m))
     THEN /\ tpc' = [tpc EXCEPT ![m] = "crashed"]
          /\ NoEmit(Turn(m), TRUE)
          /\ UNCHANGED locked
     ELSE Release(m)
  /\ UNCHANGED <<mapVars, waiters, sandbox_status, sandbox, killed, idle, envVars,
                 epc, rpc, kpc, closing, spc, tchat, nfrag, obsVars>>
  /\ tfail' = [tfail EXCEPT ![m] = "none"]
  /\ UNCHANGED <<kinds, out, total_content, db>>
  /\ UNCHANGED <<regVars, agentVars, funVars, chatVars>>

\* kill() without its early return on killed.
C4_NoKilledGuard == FALSE

\* ------------------------------------------------------------- kill()
\* Line 96: the guard of kill().
KillGuard == killed

\* kill() is entered by caller k: lines 96-100.
KEnter(k) ==
  /\ cur = k
  /\ kpc[k] = "enter"
  /\ IF KillGuard
     THEN /\ kpc' = [kpc EXCEPT ![k] = "skipped"]
          /\ UNCHANGED <<killed, sandbox_status, em, cur, nKillCast>>
     ELSE /\ killed' = TRUE
          /\ sandbox_status' = BUILDING
          /\ nKillCast' = Inc(nKillCast)
          /\ EmitProject(k, BUILDING, chat_sockets)
          /\ kpc' = [kpc EXCEPT ![k] = "close"]
  /\ UNCHANGED <<mapVars, lockVars, sandbox, idle, envVars, epc, rpc, closing, spc,
                 tpc, tchat, nfrag, nTerminate, observe, seen, nfail>>
  /\ UNCHANGED <<regVars, agentVars, funVars, turnData, chatVars>>

\* Lines 103-111: a close() coroutine per registered socket, gathered when
\* there is one.
KClose(k) ==
  /\ kpc[k] = "close"
  /\ CanRun(k)
  /\ IF Raised(k)
     THEN /\ kpc' = [kpc EXCEPT ![k] = "raised"]
          /\ NoEmit(k, FALSE)
          /\ UNCHANGED closing
     ELSE IF AllSockets(chat_sockets) = {}
          THEN /\ kpc' = [kpc EXCEPT ![k] = "clear"]
               /\ NoEmit(k, FALSE)
               /\ UNCHANGED closing
          ELSE /\ kpc' = [kpc EXCEPT ![k] = "closing"]
               /\ closing' = [closing EXCEPT ![k] = AllSockets(chat_sockets)]
               /\ NoEmit(k, TRUE)
  /\ UNCHANGED <<pmVars, envVars, epc, rpc, spc, tpc, tchat, nfrag, obsVars>>
  /\ UNCHANGED <<regVars, agentVars, funVars, turnData, chatVars>>

\* The gathered close() calls ran.  Closing a connection that is already
\* closed may raise; gather then raises out of kill(), the other connections
\* having been closed all the same.
KClosing(k) ==
  /\ cur = NoTask
  /\ kpc[k] = "closing"
  /\ sock' = [s \in Sockets |-> IF s \in closing[k] THEN "closed" ELSE sock[s]]
  /\ closing' = [closing EXCEPT ![k] = {}]
  /\ cur' = k
  /\ \/ kpc' = [kpc EXCEPT ![k] = "clear"]
     \/ /\ \E s \in closing[k] : sock[s] = "closed"
        /\ kpc' = [kpc EXCEPT ![k] = "raised"]
  /\ UNCHANGED <<pmVars, volume, epc, rpc, spc, tpc, tchat, nfrag, em, obsVars>>
  /\ UNCHANGED <<regVars, agentVars, funVars, turnData, chatVars>>

\* Lines 114-119: the three maps are cleared, the project is read, and when it
\* has a volume its resources are terminated.
KClear(k) ==
  /\ cur = k
  /\ kpc[k] = "clear"
  /\ chat_sockets' = <<>>
  /\ chat_agents' = <<>>
  /\ chat_users' = <<>>
  /\ IF volume
     THEN /\ nTerminate' = Inc(nTerminate)
          /\ kpc' = [kpc EXCEPT ![k] = "term"]
          /\ cur' = NoTask
     ELSE /\ kpc' = [kpc EXCEPT ![k] = "returned"]
          /\ UNCHANGED <<cur, nTerminate>>
  /\ UNCHANGED <<lockVars, sandbox_status, sandbox, killed, idle, envVars, epc, rpc,
                 closing, spc, tpc, tchat, nfrag, em, nKillCast, observe,
                 seen, nfail>>
  /\ UNCHANGED <<regVars, agentVars, funVars, turnData, chatVars>>

\* terminate_project_resources returns or raises.
KTerm(k) ==
  /\ cur = NoTask
  /\ kpc[k] = "term"
  /\ cur' = k
  /\ \/ kpc' = [kpc EXCEPT ![k] = "returned"]
     \/ kpc' = [kpc EXCEPT ![k] = "raised"]
  /\ UNCHANGED <<pmVars, envVars, epc, rpc, closing, spc, tpc, tchat, nfrag, em,
                 obsVars>>
  /\ UNCHANGED <<regVars, agentVars, funVars, turnData, chatVars>>

\* ------------------------------------------------------------- reconciliation
\* A _try_manage_sandbox that leaves its loop on an exception instead of
\* sleeping and running the task again.
C17_GivesUp ==
  /\ rpc' = "done"
  /\ NoEmit(Recon, TRUE)

\* _try_manage_sandbox: an exception out of _manage_sandbox_task is printed and
\* the task is run again after sleep(30).
ToRetry ==
  /\ rpc' = "retry"
  /\ NoEmit(Recon, TRUE)

\* _manage_sandbox_task, lines 123-124 (first run, or the run after a retry).
RStart ==
  /\ cur = NoTask
  /\ rpc \in {"start", "retry"}
  /\ sandbox_status' = BUILDING
  /\ EmitProject(Recon, BUILDING, chat_sockets)
  /\ rpc' = "loop"
  /\ UNCHANGED <<mapVars, lockVars, sandbox, killed, idle, envVars, epc, kpc,
                 closing, spc, tpc, tchat, nfrag, obsVars>>
  /\ UNCHANGED <<regVars, agentVars, funVars, turnData, chatVars>>

\* Line 125: while self.sandbox is None, get_or_create is awaited; otherwise
\* wait_for_up is.
RLoop ==
  /\ rpc = "loop"
  /\ CanRun(Recon)
  /\ IF Raised(Recon)
     THEN ToRetry
     ELSE /\ rpc' = IF sandbox = "none" THEN "acquire" ELSE "wait_up"
          /\ NoEmit(Recon, TRUE)
  /\ UNCHANGED <<pmVars, envVars, epc, kpc, closing, spc, tpc, tchat, nfrag, obsVars>>
  /\ UNCHANGED <<regVars, agentVars, funVars, turnData, chatVars>>

\* Line 127: get_or_create returns the handle; the loop ends and wait_for_up
\* is awaited.
RAcquireOk ==
  /\ cur = NoTask
  /\ rpc = "acquire"
  /\ sandbox' = "sb"
  /\ rpc' = "wait_up"
  /\ UNCHANGED <<mapVars, lockVars, sandbox_status, killed, idle, envVars, epc, kpc,
                 closing, spc, tpc, tchat, nfrag, em, cur, obsVars>>
  /\ UNCHANGED <<regVars, agentVars, funVars, turnData, chatVars>>

\* A handler of SandboxNotReadyException that sets BUILDING_WAITING and sleeps
\* without broadcasting it.
C9_SilentBackoff ==
  /\ cur = NoTask
  /\ rpc = "acquire"
  /\ observe => nfail < MaxFail
  /\ nfail' = IF observe THEN nfail + 1 ELSE nfail
  /\ sandbox_status' = BUILDING_WAITING
  /\ rpc' = "acquire"
  /\ UNCHANGED <<mapVars, lockVars, sandbox, killed, idle, envVars, epc, kpc, closing,
                 spc, tpc, tchat, nfrag, em, cur, killObs, observe, seen>>
  /\ UNCHANGED <<regVars, agentVars, funVars, turnData, chatVars>>

\* Lines 128-131: get_or_create raises SandboxNotReadyException.
RAcquireNotReady ==
  /\ cur = NoTask
  /\ rpc = "acquire"
  /\ observe => nfail < MaxFail
  /\ nfail' = IF observe THEN nfail + 1 ELSE nfail
  /\ sandbox_status' = BUILDING_WAITING
  /\ EmitProject(Recon, BUILDING_WAITING, chat_sockets)
  /\ rpc' = "backoff"
  /\ UNCHANGED <<mapVars, lockVars, sandbox, killed, idle, envVars, epc, kpc, closing,
                 spc, tpc, tchat, nfrag, killObs, observe, seen>>
  /\ UNCHANGED <<regVars, agentVars, funVars, turnData, chatVars>>

\* The BUILDING_WAITING broadcast returned; sleep(10), then get_or_create again.
RBackoff ==
  /\ rpc = "backoff"
  /\ CanRun(Recon)
  /\ IF Raised(Recon)
     THEN ToRetry
     ELSE /\ rpc' = "acquire"
          /\ NoEmit(Recon, TRUE)
  /\ UNCHANGED <<pmVars, envVars, epc, kpc, closing, spc, tpc, tchat, nfrag, obsVars>>
  /\ UNCHANGED <<regVars, agentVars, funVars, turnData, chatVars>>

\* Lines 132-134: wait_for_up returns, READY is set, the tunnels are awaited.
RWaitUp ==
  /\ cur = NoTask
  /\ rpc = "wait_up"
  /\ sandbox_status' = READY
  /\ rpc' = "snapshot"
  /\ UNCHANGED <<mapVars, lockVars, sandbox, killed, idle, envVars, epc, kpc,
                 closing, spc, tpc, tchat, nfrag, em, cur, obsVars>>
  /\ UNCHANGED <<regVars, agentVars, funVars, turnData, chatVars>>

\* Lines 134-140: tunnels and snapshot arrive, the status of this moment is
\* broadcast.
RSnapshot ==
  /\ cur = NoTask
  /\ rpc = "snapshot"
  /\ EmitProject(Recon, sandbox_status, chat_sockets)
  /\ rpc' = "install"
  /\ UNCHANGED <<pmVars, envVars, epc, kpc, closing, spc, tpc, tchat, nfrag, obsVars>>
  /\ UNCHANGED <<regVars, agentVars, funVars, turnData, chatVars>>

\* A ready step that goes on to the liveness poll without the loop of lines
\* 141-143.
C19_NoInstall ==
  /\ rpc = "install"
  /\ CanRun(Recon)
  /\ IF Raised(Recon)
     THEN ToRetry
     ELSE /\ rpc' = "poll"
          /\ NoEmit(Recon, TRUE)
  /\ UNCHANGED <<mapVars, lockVars, sandbox_status, sandbox, killed,
                 idle, envVars, epc, kpc, closing, spc, tpc, tchat, nfrag, obsVars>>
  /\ UNCHANGED <<regVars, agentVars, funVars, turnData, chatVars>>

\* Lines 141-145: the handle is installed into every agent, then is_up is
\* awaited.
RInstall ==
  /\ rpc = "install"
  /\ CanRun(Recon)
  /\ IF Raised(Recon)
     THEN ToRetry /\ UNCHANGED chat_agents
     ELSE /\ chat_agents' = [c \in DOMAIN chat_agents |-> sandbox]
          /\ rpc' = "poll"
          /\ NoEmit(Recon, TRUE)
  /\ UNCHANGED <<chat_sockets, chat_users, lockVars, sandbox_status, sandbox, killed,
                 idle, envVars, epc, kpc, closing, spc, tpc, tchat, nfrag, obsVars>>
  /\ UNCHANGED <<regVars, agentVars, funVars, turnData, chatVars>>

\* Lines 141-143 raise inside the loop body (self.tunnels[3000] has no entry):
\* the first agent visited has received the handle, the others have not.
RInstallFails ==
  /\ rpc = "install"
  /\ CanRun(Recon)
  /\ ~Raised(Recon)
  /\ \E c \in DOMAIN chat_agents :
       chat_agents' = [chat_agents EXCEPT ![c] = sandbox]
  /\ ToRetry
  /\ UNCHANGED <<chat_sockets, chat_users, lockVars, sandbox_status, sandbox, killed,
                 idle, envVars, epc, kpc, closing, spc, tpc, tchat, nfrag, obsVars>>
  /\ UNCHANGED <<regVars, agentVars, funVars, turnData, chatVars>>

\* An awaited sandbox call (get_or_create, wait_for_up, the tunnels, the
\* snapshot, is_up) raises an exception other than SandboxNotReadyException.
RCallFails ==
  /\ cur = NoTask
  /\ rpc \in {"acquire", "wait_up", "snapshot", "poll"}
  /\ ToRetry
  /\ UNCHANGED <<pmVars, envVars, epc, kpc, closing, spc, tpc, tchat, nfrag, obsVars>>
  /\ UNCHANGED <<regVars, agentVars, funVars, turnData, chatVars>>

\* Lines 145-147: is_up answers False (while it answers True the task sleeps
\* and asks again): kill() is called.
RPollDown ==
  /\ cur = NoTask
  /\ rpc = "poll"
  /\ rpc' = "kill"
  /\ kpc' = [kpc EXCEPT ![Recon] = "enter"]
  /\ cur' = Recon
  /\ UNCHANGED <<pmVars, envVars, epc, closing, spc, tpc, tchat, nfrag, em, obsVars>>
  /\ UNCHANGED <<regVars, agentVars, funVars, turnData, chatVars>>

\* kill() returned to _manage_sandbox_task, which ends (break), or raised.
RKilled ==
  /\ cur = Recon
  /\ rpc = "kill"
  /\ kpc[Recon] \in {"returned", "skipped", "raised"}
  /\ rpc' = IF kpc[Recon] = "raised" THEN "retry" ELSE "done"
  /\ kpc' = [kpc EXCEPT ![Recon] = "none"]
  /\ NoEmit(Recon, TRUE)
  /\ UNCHANGED <<pmVars, envVars, epc, closing, spc, tpc, tchat, nfrag, obsVars>>
  /\ UNCHANGED <<regVars, agentVars, funVars, turnData, chatVars>>

\* ------------------------------------------------------------- idle sweep
\* ProjectManager.is_inactive
is_inactive == (DOMAIN chat_sockets = {} /\ idle) \/ killed

\* More than 30 minutes pass without activity.
Tick ==
  /\ cur = NoTask
  /\ ~idle
  /\ idle' = TRUE
  /\ UNCHANGED <<mapVars, lockVars, sandbox_status, sandbox, killed, envVars, pcVars,
                 obsVars>>
  /\ UNCHANGED <<regVars, agentVars, funVars, turnData, chatVars>>

\* cleanup_inactive_project_managers, lines 30-33: the manager is listed.
SScan ==
  /\ cur = NoTask
  /\ spc = "idle"
  /\ is_inactive
  /\ spc' = "listed"
  /\ UNCHANGED <<pmVars, envVars, epc, rpc, kpc, closing, tpc, tchat, nfrag, em, cur,
                 obsVars>>
  /\ UNCHANGED <<regVars, agentVars, funVars, turnData, chatVars>>

\* Line 36: kill() of the listed manager is awaited.
SKill ==
  /\ cur = NoTask
  /\ spc = "listed"
  /\ spc' = "kill"
  /\ kpc' = [kpc EXCEPT ![Sweep] = "enter"]
  /\ cur' = Sweep
  /\ UNCHANGED <<pmVars, envVars, epc, rpc, closing, tpc, tchat, nfrag, em, obsVars>>
  /\ UNCHANGED <<regVars, agentVars, funVars, turnData, chatVars>>

\* kill() returned (line 37 removes the registry entry) or raised (task_handler
\* swallows the exception).
SKilled ==
  /\ cur = Sweep
  /\ spc = "kill"
  /\ kpc[Sweep] \in {"returned", "skipped", "raised"}
  /\ spc' = "idle"
  /\ kpc' = [kpc EXCEPT ![Sweep] = "none"]
  /\ NoEmit(Sweep, TRUE)
  /\ UNCHANGED <<pmVars, envVars, epc, rpc, closing, tpc, tchat, nfrag, obsVars>>
  /\ UNCHANGED <<regVars, agentVars, funVars, turnData, chatVars>>

\* ------------------------------------------------------------- create_chat
\* POST /api/chats (chats.py, lines 131-198) for one user of one team.  A
\* request runs in two segments: up to its await of name_chat, and from there
\* to its response (_check_and_deduct_credits has no await of its own).  Each
\* request has a database session of its own: what it loaded at line 138 stays
\* as loaded until a commit of that session expires it.
Calls == 1..MaxCalls

IdleCall ==
  [pc |-> "new", new_project |-> FALSE, team_credits |-> 0, status |-> "-",
   why |-> "-"]

\* No request is made.
NoCalls ==
  /\ persisted = [credits |-> 0, pool_row |-> FALSE, credits_remaining |-> 0,
                  projects |-> 0, chats |-> 0, has_purchased |-> FALSE]
  /\ calls = [r \in Calls |-> [IdleCall EXCEPT !.pc = "unused"]]

\* The rows before the first request: the team's credits, whether it ever
\* purchased, today's pool row if there is one.
InitRows ==
  /\ persisted \in [credits : 0..MaxCredits, pool_row : BOOLEAN,
                    credits_remaining : 0..DailyPool, projects : {1}, chats : {0},
                    has_purchased : BOOLEAN]
  /\ ~persisted.pool_row => persisted.credits_remaining = 0
  /\ calls = [r \in Calls |-> IdleCall]

Responds(r, status, why) ==
  calls' = [calls EXCEPT ![r].pc = "done", ![r].status = status, ![r].why = why]

\* Lines 137-153: the team is loaded, the stack picked, and name_chat awaited;
\* chat.project_id is None or names a project.
CStart(r) ==
  /\ calls[r].pc = "new"
  /\ \E np \in BOOLEAN :
       calls' = [calls EXCEPT ![r].pc = "naming", ![r].new_project = np,
                              ![r].team_credits = persisted.credits]
  /\ UNCHANGED persisted
  /\ UNCHANGED <<orchVars, regVars, agentVars, funVars, turnData>>

\* Lines 142-143 and 150-151: no such team, or no such stack.
CNotFound(r) ==
  /\ calls[r].pc = "new"
  /\ Responds(r, "404", "-")
  /\ UNCHANGED persisted
  /\ UNCHANGED <<orchVars, regVars, agentVars, funVars, turnData>>

\* Lines 155-168: a new project is added and committed.
WithProject(p, c) == IF c.new_project THEN [p EXCEPT !.projects = @ + 1] ELSE p
\* team.credits as line 86 reads it: the commit of line 166 expired the team,
\* which is loaded again; without that commit it is the row loaded at line 138.
TeamCredits(p, c) == IF c.new_project THEN p.credits ELSE c.team_credits
\* Lines 88-99: the shared pool is for teams that never purchased, while the
\* user has fewer than CREDIT_MAX_CHATS_FOR_SHARED_POOL chats.
PoolAllowed(p) == ~p.has_purchased /\ p.chats < MaxPoolChats
\* Lines 105-118: today's pool row is read, or created and committed.
WithPool(p) ==
  IF p.pool_row THEN p
  ELSE [p EXCEPT !.pool_row = TRUE, !.credits_remaining = DailyPool]

\* Lines 155-188: what is committed before the chat, and how the chat is to
\* be paid: from the team ("team", credits being the new value of
\* team.credits), from the pool ("pool"), or not at all ("402").
Charge(p, c) ==
  LET p1 == WithProject(p, c)
      t == TeamCredits(p, c)
  IN IF t >= ChatCost
     THEN [how |-> "team", p |-> p1, credits |-> t - ChatCost]
     ELSE IF ~PoolAllowed(p1)
          THEN [how |-> "402", p |-> p1, credits |-> t]
          ELSE IF WithPool(p1).credits_remaining < ChatCost
               THEN [how |-> "402", p |-> WithPool(p1), credits |-> t]
               ELSE [how |-> "pool", p |-> WithPool(p1), credits |-> t]

\* Lines 191-192: the chat and the pending deduction are committed together.
Committed(ch) ==
  IF ch.how = "team"
  THEN [ch.p EXCEPT !.credits = ch.credits, !.chats = @ + 1]
  ELSE [ch.p EXCEPT !.credits_remaining = @ - ChatCost, !.chats = @ + 1]

\* Lines 155-198, after name_chat returned: the project, the credits, the
\* chat.  The commit of the chat succeeds, or raises and is rolled back, or
\* succeeds and the refresh of line 193 raises.
CFinish(r) ==
  /\ calls[r].pc = "naming"
  /\ LET ch == Charge(persisted, calls[r]) IN
       IF ch.how = "402"
       THEN /\ persisted' = ch.p
            /\ Responds(r, "402", "credits")
       ELSE \/ /\ persisted' = Committed(ch)
               /\ Responds(r, "200", "-")
            \/ /\ persisted' = ch.p
               /\ Responds(r, "400", "commit")
            \/ /\ persisted' = Committed(ch)
               /\ Responds(r, "400", "refresh")
  /\ UNCHANGED <<orchVars, regVars, agentVars, funVars, turnData>>

\* name_chat raises, or the project named by chat.project_id is not found
\* (lines 178-179): nothing was written.
CFails(r) ==
  /\ calls[r].pc = "naming"
  /\ \/ Responds(r, "500", "name_chat")
     \/ /\ ~calls[r].new_project
        /\ Responds(r, "404", "-")
  /\ UNCHANGED persisted
  /\ UNCHANGED <<orchVars, regVars, agentVars, funVars, turnData>>

\* ------------------------------------------------------------- specification
\* The state after ProjectManager(db, project.id) and start(); the websockets
\* of usable are the ones that will connect.
InitFields(usable) ==
  /\ chat_sockets = <<>>
  /\ chat_agents = <<>>
  /\ chat_users = <<>>
  /\ locked = FALSE
  /\ waiters = <<>>
  /\ sandbox_status = OFFLINE
  /\ sandbox = "none"
  /\ killed = FALSE
  /\ idle = FALSE
  /\ volume \in BOOLEAN
  /\ sock = [s \in Sockets |-> "new"]
  /\ epc = [s \in Sockets |-> IF s \in usable THEN "new" ELSE "unused"]
  /\ rpc = "start"
  /\ kpc = [k \in KillCallers |-> "none"]
  /\ closing = [k \in KillCallers |-> {}]
  /\ spc = "idle"
  /\ tpc = [m \in Msgs |-> "none"]
  /\ tchat = [m \in Msgs |-> 0]
  /\ nfrag = 0
  /\ em = [e \in Tasks |-> IdleEm]
  /\ cur = NoTask
  /\ nTerminate = 0
  /\ nKillCast = 0
  /\ seen = [s \in Sockets |-> <<>>]
  /\ nfail = 0

InitPM(usable) ==
  /\ InitFields(usable)
  /\ InitProjectManagers
  /\ InitStep
  /\ NoCall
  /\ InitTurnData
  /\ NoCalls
  /\ kinds = PlainKinds

EmitStep ==
  \/ \E e \in Tasks : EmitChatRun(e)
  \/ \E e \in Tasks, s \in Sockets : EmitSend(e, s)

SessionStep ==
  \/ \E s \in Sockets : EpConnect(s)
  \/ \E s \in Sockets : EpAdd(s)
  \/ \E s \in Sockets : EpAdded(s)
  \/ \E s \in Sockets : EpDisconnected(s)
  \/ \E s \in Sockets : EpFinally(s)
  \/ \E s \in Sockets : ClientDisconnect(s)

\* The steps of a turn that does not wait for the lock.
TurnRunStep ==
  \/ \E s \in Sockets : EpReceive(s)
  \/ \E m \in Msgs : TAcquire(m)
  \/ \E m \in Msgs : TStart(m)
  \/ \E m \in Msgs : TPersistIn(m)
  \/ \E m \in Msgs : TAgent(m)
  \/ \E m \in Msgs : TStream(m)
  \/ \E m \in Msgs : TGen(m)
  \/ \E m \in Msgs : TFollowUps(m)
  \/ \E m \in Msgs : TFinal(m)
  \/ \E m \in Msgs : TRefresh(m)
  \/ \E m \in Msgs : TEnd(m)
  \/ \E m \in Msgs : TFails(m)
  \/ \E m \in Msgs : TExcept(m)
  \/ \E m \in Msgs : TExceptEnd(m)

TurnStep ==
  \/ TurnRunStep
  \/ \E m \in Msgs : TWake(m)

KillStep ==
  \/ \E k \in KillCallers : KEnter(k)
  \/ \E k \in KillCallers : KClose(k)
  \/ \E k \in KillCallers : KClosing(k)
  \/ \E k \in KillCallers : KClear(k)
  \/ \E k \in KillCallers : KTerm(k)

BootStep ==
  \/ RStart
  \/ RLoop
  \/ RAcquireOk
  \/ RAcquireNotReady
  \/ RBackoff
  \/ RWaitUp
  \/ RSnapshot
  \/ RInstall

ReconStep ==
  \/ BootStep
  \/ RInstallFails
  \/ RCallFails
  \/ RPollDown
  \/ RKilled

SweepStep ==
  \/ Tick
  \/ SScan
  \/ SKill
  \/ SKilled

\* The orchestrator with its connections, its reconciliation task and kill().
Init == InitPM(OneEach) /\ observe = FALSE
Next == EmitStep \/ SessionStep \/ ReconStep \/ KillStep
Spec == Init /\ [][Next]_vars

\* The orchestrator of one connection with the idle sweep beside the
\* reconciliation task: two callers of kill().
InitKill == InitPM({1}) /\ observe = FALSE
NextKill == EmitStep \/ SessionStep \/ ReconStep \/ KillStep \/ SweepStep
SpecKill == InitKill /\ [][NextKill]_vars

\* Chat turns.  The reconciliation task stays suspended where it is: in
\* get_or_create (the sandbox is still booting) or between two liveness polls.
InitSuspended(usable, msgs) ==
  /\ chat_sockets = <<>>
  /\ chat_agents = <<>>
  /\ chat_users = <<>>
  /\ locked = FALSE
  /\ waiters = <<>>
  /\ \/ sandbox_status = BUILDING /\ sandbox = "none" /\ rpc = "acquire"
     \/ sandbox_status = READY /\ sandbox = "sb" /\ rpc = "poll"
  /\ killed = FALSE
  /\ idle = FALSE
  /\ volume = TRUE
  /\ sock = [s \in Sockets |-> "new"]
  /\ epc = [s \in Sockets |-> IF s \in usable THEN "new" ELSE "unused"]
  /\ kpc = [k \in KillCallers |-> "none"]
  /\ closing = [k \in KillCallers |-> {}]
  /\ spc = "idle"
  /\ tpc = [m \in Msgs |-> IF m \in msgs THEN "none" ELSE "unused"]
  /\ tchat = [m \in Msgs |-> 0]
  /\ nfrag = 0
  /\ em = [e \in Tasks |-> IdleEm]
  /\ cur = NoTask
  /\ nTerminate = 0
  /\ nKillCast = 0
  /\ seen = [s \in Sockets |-> <<>>]
  /\ nfail = 0
  /\ InitProjectManagers
  /\ InitStep
  /\ NoCall
  /\ InitTurnData
  /\ NoCalls
InitTurns == InitSuspended(OneEach, Msgs) /\ observe = FALSE /\ kinds = PlainKinds
NextTurns == EmitStep \/ SessionStep \/ TurnStep
SpecTurns == InitTurns /\ [][NextTurns]_vars

\* Chat turns as the clients of one chat see them: the sandbox is up, the
\* connections are all for chat 1 and what each receives is recorded.  One
\* message is sent, so no turn waits for the lock.
InitStream ==
  /\ InitSuspended(SameChat, {1})
  /\ sandbox_status = READY
  /\ observe = TRUE
  /\ kinds = PlainKinds
NextStream == EmitStep \/ SessionStep \/ TurnRunStep
SpecStream == InitStream /\ [][NextStream]_vars

\* The boot of the sandbox as the clients see it: connections register and
\* stay, get_or_create raises SandboxNotReadyException up to MaxFail times and
\* nothing else fails; the statuses each client receives are recorded.
InitBoot == InitPM(OneEach) /\ observe = TRUE
NextBoot ==
  \/ EmitStep
  \/ \E s \in Sockets : EpConnect(s)
  \/ \E s \in Sockets : EpAdd(s)
  \/ \E s \in Sockets : EpAdded(s)
  \/ BootStep
SpecBoot == InitBoot /\ [][NextBoot]_vars

\* One chat turn with its data: what agent.step yields, what is accumulated
\* and what is committed.  One connection, one message.
InitPersist == InitSuspended({1}, {1}) /\ observe = FALSE /\ kinds = FragKinds
NextPersist == EmitStep \/ SessionStep \/ TurnRunStep
SpecPersist == InitPersist /\ [][NextPersist]_vars

\* The sandbox goes down, or a sandbox call fails, while a chat turn runs:
\* the reconciliation task, its kill() and one turn of one connection.
InitDown == InitSuspended({1}, {1}) /\ observe = FALSE /\ kinds = PlainKinds
NextDown == EmitStep \/ SessionStep \/ TurnRunStep \/ ReconStep \/ KillStep
SpecDown == InitDown /\ [][NextDown]_vars

\* One call of _parse_follow_ups.
InitParse ==
  /\ InitFields({})
  /\ InitProjectManagers
  /\ InitStep
  /\ observe = FALSE
  /\ InitCall
  /\ InitTurnData
  /\ NoCalls
  /\ kinds = PlainKinds
NextParse == ParseFollowUps
SpecParse == InitParse /\ [][NextParse]_vars

\* The reconciliation task under the event loop's scheduling: a task that
\* holds the loop runs on, a task whose await is complete is resumed, the
\* sends of a broadcast are carried out; get_or_create, wait_for_up and the
\* tunnel and snapshot calls fail any number of times but not for ever.
FairRecon ==
  /\ WF_vars(cur # NoTask /\ NextKill)
  /\ WF_vars(ReconStep)
  /\ WF_vars(EmitStep)
  /\ SF_vars(RAcquireOk)
  /\ SF_vars(RWaitUp)
  /\ SF_vars(RSnapshot)
SpecRecon == InitKill /\ [][NextKill]_vars /\ FairRecon

\* The registry: endpoints connect and leave, orchestrators age, lose their
\* sandbox and are killed, the cleanup runs.
InitRegistry == InitPM({}) /\ observe = FALSE
NextRegistry ==
  \/ \E c \in Conns : WsConnect(c)
  \/ \E c \in Conns : WsAdd(c)
  \/ \E c \in Conns : WsAddFails(c)
  \/ \E c \in Conns : WsFinally(c)
  \/ \E i \in PMs : Ages(i)
  \/ \E i \in PMs : SandboxDown(i)
  \/ \E i \in PMs : KillCompletes(i)
  \/ \E i \in PMs : KillRaises(i)
  \/ CleanupScan
  \/ CleanupKill
  \/ CleanupDel
SpecRegistry == InitRegistry /\ [][NextRegistry]_vars

\* Agent.step: the completion service sends any chunks it likes.
InitAgent == InitPM({}) /\ observe = FALSE
NextAgent ==
  \/ ARequest
  \/ \E d \in Deltas : AToolDelta(d)
  \/ AContent
  \/ AFinishTools
  \/ AToolCall
  \/ AToolRunFails
  \/ AToolsDone
  \/ AFinishStop
  \/ AStreamEnds
SpecAgent == InitAgent /\ [][NextAgent]_vars

\* Agent.step from its call: the first fragment, the plan, the loop; the
\* agent gets its sandbox at any time.  The completion service sends whole
\* tool calls.
WholeCalls == {d \in Deltas : d.arguments = Args(<<"a", "b">>)}
InitWholeStep ==
  /\ InitFields({})
  /\ InitProjectManagers
  /\ InitCalled
  /\ NoCall
  /\ InitTurnData
  /\ NoCalls
  /\ kinds = PlainKinds
  /\ observe = FALSE
NextWholeStep ==
  \/ AFirst
  \/ APlanDelta
  \/ APlanFails
  \/ APlanEnds
  \/ ASetSandbox
  \/ ARequest
  \/ \E d \in WholeCalls : AToolDelta(d)
  \/ AContent
  \/ AFinishTools
  \/ AToolCall
  \/ AToolRunFails
  \/ AToolsDone
  \/ AFinishStop
  \/ AStreamEnds
SpecWholeStep == InitWholeStep /\ [][NextWholeStep]_vars

\* The loop of Agent.step for as long as the completion service answers: any
\* number of requests, of which only the first MaxRequests - 1 may end with
\* the tool-calls terminus.  The loop's own steps are taken when they can be,
\* and every stream ends, with whatever finish reason.
StreamCloses ==
  \/ AFinishStop
  \/ AStreamEnds
  \/ (nreq < MaxRequests /\ AFinishTools)
InitLoop == InitPM({}) /\ observe = FALSE
NextLoop ==
  \/ ARequest
  \/ ARequestAgain
  \/ \E d \in WholeCalls : AToolDelta(d)
  \/ AContent
  \/ AToolCall
  \/ AToolRunFails
  \/ AToolsDone
  \/ StreamCloses
FairLoop ==
  /\ WF_vars(ARequest \/ ARequestAgain)
  /\ WF_vars(AToolCall \/ AToolsDone)
  /\ WF_vars(StreamCloses)
SpecLoop == InitLoop /\ [][NextLoop]_vars /\ FairLoop

\* create_chat: requests of one user, each in a session of its own.
InitCreate ==
  /\ InitFields({})
  /\ InitProjectManagers
  /\ InitStep
  /\ NoCall
  /\ InitTurnData
  /\ kinds = PlainKinds
  /\ observe = FALSE
  /\ InitRows
NextCreate ==
  \/ \E r \in Calls : CStart(r)
  \/ \E r \in Calls : CNotFound(r)
  \/ \E r \in Calls : CFinish(r)
  \/ \E r \in Calls : CFails(r)
SpecCreate == InitCreate /\ [][NextCreate]_vars

\* ------------------------------------------------------------- claims
\* C1: a chat id is a key of chat_sockets, chat_agents and chat_users iff it
\* has a registered connection: the three maps have the same keys and no key
\* maps to an empty list of connections.
C1_SessionIffConnections ==
  /\ DOMAIN chat_sockets = DOMAIN chat_agents
  /\ DOMAIN chat_agents = DOMAIN chat_users
  /\ \A c \in DOMAIN chat_sockets : chat_sockets[c] # <<>>

\* A turn is in progress for message m: _handle_chat_message has started and
\* on_chat_message has not released the lock.
TurnRunning(m) ==
  tpc[m] \in {"start", "persist_in", "agent", "stream", "gen", "followups", "final",
              "refresh", "endemit", "except", "exceptemit"}

\* C3: at most one turn of the project is in progress at any time, whatever
\* chats the messages belong to, and the turn in progress holds the lock.
C3_OneTurnAtATime ==
  /\ Cardinality({m \in Msgs : TurnRunning(m)}) <= 1
  /\ \A m \in Msgs : TurnRunning(m) => locked

\* A turn runs for one chat while a message of another chat waits for the lock.
C3_Witness ==
  \E m1, m2 \in Msgs :
    /\ TurnRunning(m1)
    /\ tpc[m2] = "waitlock"
    /\ tchat[m1] # tchat[m2]

\* C4: whatever the number of kill() calls and their interleaving, the
\* resources are terminated at most once and the terminal status is broadcast
\* exactly once, by the call that found the orchestrator alive.
C4_KillIdempotent ==
  /\ nTerminate <= 1
  /\ nKillCast = IF killed THEN 1 ELSE 0
  /\ ~killed => nTerminate = 0

\* A second kill() returned at its guard while the first is still running.
C4_Witness ==
  /\ kpc[Recon] \in {"close", "closing", "clear", "term"}
  /\ kpc[Sweep] = "skipped"
  /\ nKillCast = 1

\* C5: a message whose on_chat_message found the lock held is dropped: it
\* never gets a turn.
C5_BusyMessageDropped ==
  [][\A m \in Msgs : tpc[m] = "waitlock" => tpc'[m] = "waitlock"]_vars

\* C6: whatever is raised during a turn, the exception does not leave
\* on_chat_message and the lock is released when the task ends.
C6_LockReleased ==
  /\ \A m \in Msgs : tpc[m] # "crashed"
  /\ (\A m \in Msgs : ~TurnRunning(m)) => ~locked

\* The status lifecycle of the design.
LifecycleEdges ==
  {<<OFFLINE, BUILDING>>, <<BUILDING, BUILDING_WAITING>>,
   <<BUILDING_WAITING, BUILDING>>, <<BUILDING, READY>>, <<READY, WORKING>>,
   <<WORKING, READY>>, <<WORKING, WORKING_APPLYING>>, <<WORKING_APPLYING, WORKING>>}

\* C7: every change of sandbox_status follows an edge of the lifecycle.
C7_StatusFollowsLifecycle ==
  [][sandbox_status' # sandbox_status =>
       <<sandbox_status, sandbox_status'>> \in LifecycleEdges]_vars

\* C8: a turn starts in READY and sets WORKING; the status broadcast that ends
\* it carries READY.
C8_TurnReadyWorkingReady ==
  [][\A m \in Msgs :
       /\ (tpc[m] = "start" /\ tpc'[m] = "persist_in") =>
             (sandbox_status = READY /\ sandbox_status' = WORKING)
       /\ (tpc[m] # tpc'[m] /\ tpc'[m] \in {"endemit", "exceptemit"}
             /\ em'[Turn(m)].phase # "idle") =>
             em'[Turn(m)].data = READY]_vars

\* C10: when the kill() that found the orchestrator alive ends, the terminal
\* status was broadcast, the three maps are empty, every connection whose
\* endpoint is still registered is closed, and termination of the resources
\* was requested iff the project has a volume.
C10_KillTearsDown ==
  \A k \in KillCallers :
    kpc[k] \in {"returned", "raised"} =>
      /\ nKillCast = 1
      /\ chat_sockets = <<>> /\ chat_agents = <<>> /\ chat_users = <<>>
      /\ \A s \in Sockets : epc[s] \in {"adding", "recv"} => sock[s] = "closed"
      /\ (nTerminate = 1) <=> volume

\* The statuses of a boot in which get_or_create was not ready n times.
BootSequence(n) ==
  <<BUILDING>> \o [i \in 1..n |-> BUILDING_WAITING] \o <<READY>>

\* Connection s is there for the whole boot: the first status it received is
\* the BUILDING of its own registration, so it registered before the first
\* outcome of get_or_create.
WholeBoot(s) ==
  /\ seen[s] # <<>>
  /\ seen[s][1] = BUILDING

\* So far add_chat_socket has not run for any connection but s, and no message
\* was handled.
AloneInBoot(s) ==
  /\ \A o \in Sockets \ {s} : epc[o] \in {"new", "accepted", "failed", "unused"}
  /\ \A m \in Msgs : tpc[m] = "none"

\* What s has received is the beginning of the boot sequence, and the whole of
\* it once the boot is over (is_up is polled).
ReceivedBootSequence(s) ==
  /\ Len(seen[s]) <= nfail + 2
  /\ seen[s] = SubSeq(BootSequence(nfail), 1, Len(seen[s]))
  /\ rpc = "poll" => seen[s] = BootSequence(nfail)

C2_OneLiveOrchestrator == Cardinality(LivePMs) <= 1

\* C11: whenever the project's entry is deleted from project_managers, the
\* orchestrator stored in it at that moment is killed.
C11_OnlyKilledRemoved ==
  [][(project_managers # 0 /\ project_managers' = 0) =>
       pm_killed[project_managers]]_vars

\* The chat_chunk events of the turn of message m that connection s received.
ChunksOf(s, m) ==
  SelectSeq(seen[s], LAMBDA d : d \in {Fragment(m, i) : i \in 1..(MaxFrags + 1)})

\* Connection s has been registered since the first fragment of the turn of m.
WholeTurn(s, m) ==
  /\ tchat[m] \in DOMAIN chat_sockets
  /\ s \in Range(chat_sockets[tchat[m]])
  /\ ChunksOf(s, m) # <<>>
  /\ ChunksOf(s, m)[1] = Fragment(m, 1)

\* C12: a connection registered for the chat during the whole turn receives
\* the fragments in the order agent.step yields them, none twice, and has
\* received every fragment yielded so far when the next one is requested.
C12_ChunksInOrder ==
  \A s \in Sockets, m \in Msgs :
    WholeTurn(s, m) =>
      /\ \A j \in 1..Len(ChunksOf(s, m)) : ChunksOf(s, m)[j] = Fragment(m, j)
      /\ tpc[m] = "gen" => Len(ChunksOf(s, m)) = nfrag

\* Two connections of the chat have both received the two fragments of a turn.
C12_Witness ==
  \E m \in Msgs, s1, s2 \in Sockets :
    /\ s1 # s2
    /\ WholeTurn(s1, m) /\ WholeTurn(s2, m)
    /\ tpc[m] = "gen"
    /\ ChunksOf(s1, m) = <<Fragment(m, 1), Fragment(m, 2)>>
    /\ ChunksOf(s2, m) = <<Fragment(m, 1), Fragment(m, 2)>>

\* The send of the broadcast of task e to connection s fails in this step.
SendFails(e, s) ==
  /\ em[e].phase = "sending"
  /\ s \in em[e].pending
  /\ sock[s] = "closed"
  /\ em'[e].phase = "sending"
  /\ s \notin em'[e].pending

\* Another connection of the chat of s has received the event that task e
\* broadcasts; the event is a chat_chunk, which no other broadcast carries.
OtherReceived(e, s) ==
  /\ em[e].data \in Fragments
  /\ \E o \in Sockets \ {s} :
       /\ ChatOf(o) = ChatOf(s)
       /\ seen[o] # <<>>
       /\ seen[o][Len(seen[o])] = em[e].data

\* C13: when the send to one connection of a chat with several connections
\* fails, no exception leaves emit_chat, the failed connection is removed from
\* the chat's list, the sends to the other connections stay scheduled, and the
\* other connections, the agent and the user of the chat are unchanged.
C13_SendFailureIsolated ==
  [][\A e \in Tasks, s \in Sockets :
       (SendFails(e, s) /\ OtherReceived(e, s)) =>
         /\ ~em'[e].exc
         /\ em'[e].pending = em[e].pending \ {s}
         /\ DOMAIN chat_sockets' = DOMAIN chat_sockets
         /\ \A c \in DOMAIN chat_sockets :
              chat_sockets'[c] = ListRemove(chat_sockets[c], s)
         /\ chat_agents' = chat_agents
         /\ chat_users' = chat_users]_vars

\* The deltas of the current completion that carry index k, in arrival order.
DeltasAt(k) == SelectSeq(deltas, LAMBDA d : d.index = k)

\* The concatenation of the argument fragments of the deltas q.
RECURSIVE ConcatArgs(_)
ConcatArgs(q) ==
  IF q = <<>> THEN <<>> ELSE Head(q).arguments.text \o ConcatArgs(Tail(q))

\* The names that the deltas q carry.
NamesIn(q) == SelectSeq(q, LAMBDA d : d.name # NoName)

\* C14: whatever deltas a completion sends, accumulating them does not fail,
\* and the buffered call of every index seen has the concatenation of the
\* argument fragments of the deltas of that index, the first included, and the
\* name that the first named delta of that index carried.
C14_ToolCallAccumulated ==
  /\ apc # "delta_raised"
  /\ \A k \in 0..MaxIndex :
       DeltasAt(k) # <<>> =>
         /\ k + 1 <= Len(tool_calls_buffer)
         /\ tool_calls_buffer[k + 1].arguments.text = ConcatArgs(DeltasAt(k))
         /\ NamesIn(DeltasAt(k)) # <<>> =>
              tool_calls_buffer[k + 1].name = NamesIn(DeltasAt(k))[1].name

\* The last n + 1 records of the conversation are the assistant record of
\* the buffered calls and the results of the first n of them, in buffer order.
EndsWithResults(n) ==
  /\ Len(oai_chat) >= n + 1
  /\ oai_chat[Len(oai_chat) - n] = <<"assistant", tool_calls_buffer>>
  /\ \A j \in 1..n :
       /\ oai_chat[Len(oai_chat) - n + j][1] = "tool"
       /\ oai_chat[Len(oai_chat) - n + j][3] = tool_calls_buffer[j].name
       /\ oai_chat[Len(oai_chat) - n + j][4] = tool_calls_buffer[j].id

\* C15: after a tool-calls terminus the conversation holds the assistant
\* record followed by the results of the calls handled so far, in buffer
\* order; when the next completion is about to be requested all the buffered
\* calls have a result and the last thing yielded is the separator.
C15_ToolsBeforeNextRequest ==
  (apc \in {"tools", "request"} /\ ti > 0) =>
    /\ ti <= Len(tool_calls_buffer) + 1
    /\ EndsWithResults(ti - 1)
    /\ apc = "request" =>
         /\ ti = Len(tool_calls_buffer) + 1
         /\ yielded # <<>>
         /\ yielded[Len(yielded)] = Separator

\* Two buffered calls were executed and the next completion is due.
C15_Witness ==
  /\ apc = "request"
  /\ ti = 3
  /\ Len(tool_calls_buffer) = 2
  /\ EndsWithResults(2)

\* C16: a buffered call with an unknown name or with arguments that are not
\* valid JSON does not end the step: no exception of _handle_tool_call leaves
\* Agent.step.
C16_ToolFailureContained == apc # "tool_raised"

\* _manage_sandbox_task is establishing the sandbox (it has not reached the
\* liveness poll of this run).
Establishing ==
  rpc \in {"start", "retry", "loop", "acquire", "backoff", "wait_up", "snapshot"}

\* Line 140 of a run that set READY: emit_project was called with READY.
ReadyBroadcast ==
  /\ rpc = "install"
  /\ IF em[Recon].phase = "idle" THEN sandbox_status = READY
                                 ELSE em[Recon].data = READY

\* C17: while the orchestrator is not killed the reconciliation task never
\* stops trying: from every point of establishing the sandbox, whatever
\* SandboxNotReadyException results and other exceptions came before, if
\* get_or_create, wait_for_up and the snapshot do not fail for ever then the
\* status becomes READY and is broadcast (or the orchestrator is killed).
C17_NeverGivesUp == (~killed /\ Establishing) ~> (killed \/ ReadyBroadcast)

\* The task is back at its sleep(30) after an exception that came when READY
\* had already been set, and the orchestrator is not killed.
C17_Witness ==
  /\ ~killed
  /\ rpc = "retry"
  /\ sandbox = "sb"
  /\ sandbox_status = READY

\* The claim as stated: any non-empty item without a newline is returned.
C18_ParsesItemsStated == ppc = "returned" => follow_ups = items

\* C18: _parse_follow_ups of a text of k lines "- <item>", each item non-empty,
\* without a newline and not starting with white space, returns exactly the
\* k items in their order.
C18_ParsesItems ==
  (ppc = "returned" /\ \A i \in 1..Len(items) : items[i][1] \notin WhiteSpace)
    => follow_ups = items

\* Three lines were parsed, with a dash and a space inside items.
C18_Witness ==
  /\ ppc = "returned"
  /\ Len(items) = 3
  /\ items[1] = <<"a", " ">>
  /\ items[2] = <<"a", "-">>
  /\ items[3] = <<"-", "a">>
  /\ follow_ups = items

\* C19: once the reconciliation task has finished its ready step (it is at
\* the liveness poll, or past it in kill()), every agent in chat_agents holds
\* the orchestrator's sandbox handle, whenever its chat was opened.
C19_AgentsHoldHandle ==
  rpc \in {"poll", "kill", "done"} =>
    /\ sandbox # "none"
    /\ \A c \in DOMAIN chat_agents : chat_agents[c] = sandbox

\* The ready step has finished with the agents of two chats registered, and
\* nothing has been torn down.
C19_Witness ==
  /\ rpc = "poll"
  /\ ~killed
  /\ DOMAIN chat_agents = Chats
  /\ \A c \in Chats : chat_agents[c] = "sb"

\* C20: when a liveness poll has reported the handle down and kill() was
\* called, the reconciliation task only ends: it makes no further poll and
\* does not start over, and killed is true when it ends.
C20_PollDownEndsTask ==
  [][rpc = "kill" => /\ rpc' \in {"kill", "done"}
                     /\ rpc' = "done" => killed']_vars

\* C21: while the except clause handles an exception of agent.step (the plan,
\* a completion or a tool call raised), no assistant row is committed for the
\* turn, the row of the inbound message is, and the only broadcast the turn
\* issues is the status READY: no final chat_update.
C21_FailedTurnPersistsNothing ==
  \A m \in Msgs :
    tfail[m] = "step" =>
      /\ tpc[m] \in {"except", "exceptemit"}
      /\ db[m].assistant = <<>>
      /\ db[m].user
      /\ em[Turn(m)].data \in {"-", READY}

\* agent.step raised after three fragments were streamed, and READY is being
\* broadcast by the except clause.
C21_Witness ==
  /\ tfail[1] = "step"
  /\ nfrag = 3
  /\ tpc[1] = "exceptemit"
  /\ em[Turn(1)].data = READY

\* The delta_content of the fragments of q whose persist is true, in order.
RECURSIVE PersistedText(_)
PersistedText(q) ==
  IF q = <<>> THEN ""
  ELSE IF Head(q).persist THEN Head(q).delta_content \o PersistedText(Tail(q))
  ELSE PersistedText(Tail(q))

C23_TurnSurvivesDisconnect ==
  \A m \in Msgs :
    (tpc[m] \in {"done", "crashed"} /\ tchat[m] \notin DOMAIN chat_sockets) =>
      /\ tpc[m] = "done"
      /\ (\A n \in Msgs : ~TurnRunning(n)) => (~locked /\ sandbox_status = READY)

\* C24: the fragments of one Agent.step are ordered by phase: the first one
\* is the initial fragment with empty content and empty thinking content,
\* yielded before any completion is requested, and it is the only one line
\* 286 yields; a fragment of the plan has empty delta_content; no fragment of
\* the plan comes after a fragment of the execution loop.
C24_PhaseOrdered ==
  /\ apc # "start" => yielded # <<>>
  /\ yielded # <<>> => yielded[1] = Frag("first", "", "")
  /\ \A i \in 2..Len(yielded) : yielded[i].by # "first"
  /\ \A i \in 1..Len(yielded) :
       yielded[i].by = "plan" => yielded[i].delta_content = ""
  /\ \A i, j \in 1..Len(yielded) :
       (i < j /\ yielded[i].by = "exec") => yielded[j].by = "exec"

\* The step has yielded its first fragment, a fragment of the plan and a
\* fragment of the execution loop.
C24_Witness ==
  yielded = <<Frag("first", "", ""), Frag("plan", "", "p"), Frag("exec", "c", "")>>

\* The streams of the step that reported the tool-calls terminus: each added
\* one assistant record to the conversation.
ToolTermini == Cardinality({i \in 1..Len(oai_chat) : oai_chat[i][1] = "assistant"})

\* C25: a completion is requested once, and once more after each stream that
\* reported the tool-calls terminus, and never otherwise; when the loop has
\* ended on a stop terminus the requests are one more than those termini.
C25_RequestsFollowToolCalls ==
  /\ nreq <= 1 + ToolTermini
  /\ apc = "ended" => nreq = 1 + ToolTermini

\* C26: a valid run_command call that is executed while the agent holds no
\* sandbox gets the fixed text as its result, runs no command and does not
\* end the step.
C26_BootingToolCall ==
  [][(/\ apc = "tools"
      /\ agent_sandbox = "none"
      /\ ti <= Len(tool_calls_buffer)
      /\ ~ToolCallRaises(tool_calls_buffer[ti])
      /\ <<apc, ti>>' # <<apc, ti>>)
     => /\ apc' = "tools"
        /\ ti' = ti + 1
        /\ oai_chat' = Append(oai_chat, <<"tool", StillBooting, "run_command",
                                          tool_calls_buffer[ti].id>>)
        /\ nrun' = nrun]_vars

\* A call was answered with the fixed text while the agent held no sandbox,
\* and the loop has gone on to request the next completion.
C26_Witness ==
  /\ agent_sandbox = "none"
  /\ apc = "stream"
  /\ nreq = 2
  /\ nrun = 0
  /\ Len(oai_chat) = 2
  /\ oai_chat[2][1] = "tool"
  /\ oai_chat[2][2] = StillBooting

\* C27: the cleanup kills, and removes from project_managers, only an
\* orchestrator that is inactive at that moment (killed, or without a
\* registered connection), whatever endpoints connect meanwhile, and it does
\* not raise: the entry it looks up and the entry it deletes exist, and the
\* kill() it awaits returns.
C27_SweepsOnlyInactive ==
  [][(cpc' # cpc) =>
       /\ \A i \in PMs : (pm_killed'[i] /\ ~pm_killed[i]) => pm_sockets[i] = {}
       /\ (project_managers # 0 /\ project_managers' = 0) =>
            (pm_killed[project_managers] \/ pm_sockets[project_managers] = {})
       /\ cpc = "listed" => project_managers # 0
       /\ cpc = "killing" => (pm_kill[cpm] = "done" /\ project_managers # 0)]_vars

\* kill() has run on the orchestrator and no call of it is still running.
KillCompleted ==
  /\ killed
  /\ \A k \in KillCallers : kpc[k] \notin {"enter", "close", "closing", "clear", "term"}

\* The statuses a status broadcast may carry.
StatusValues == {OFFLINE, BUILDING, BUILDING_WAITING, READY, WORKING}

\* C28: once kill() has completed, sandbox_status and the sandbox handle do
\* not change, the reconciliation task does nothing but end, no agent is
\* given a handle, and neither the reconciliation task nor a turn starts a
\* status broadcast.
C28_KilledIsTerminal ==
  [][KillCompleted =>
       /\ sandbox_status' = sandbox_status
       /\ sandbox' = sandbox
       /\ rpc' # rpc => rpc' = "done"
       /\ \A c \in DOMAIN chat_agents' :
            c \in DOMAIN chat_agents /\ chat_agents'[c] = chat_agents[c]
       /\ \A e \in {Recon} \cup {Turn(m) : m \in Msgs} :
            (em'[e] # em[e] /\ em'[e].phase \in {"sched", "sending"}
               /\ em[e].phase = "idle") => em'[e].data \notin StatusValues]_vars

\* The reconciliation task has not got past wait_for_up (lines 123-132).
Acquiring == rpc \in {"start", "loop", "acquire", "backoff", "wait_up"}

\* C29: whenever sandbox_status is READY or WORKING the orchestrator holds a
\* sandbox handle whose wait_for_up has returned, and no broadcast in flight
\* carries READY or WORKING while the sandbox is still being acquired.
C29_ReadyMeansSandbox ==
  /\ sandbox_status \in {READY, WORKING} => (sandbox # "none" /\ ~Acquiring)
  /\ \A e \in Tasks :
       (em[e].phase # "idle" /\ em[e].data \in {READY, WORKING}) =>
         (sandbox # "none" /\ ~Acquiring)

\* C30: remove_chat_socket does not raise in the finally block of any
\* endpoint, so that every endpoint goes on to close its connection and its
\* database session.
C30_CleanupCompletes == \A s \in Sockets : epc[s] # "raised"

\* C31: a task of on_chat_message that holds the lock on a killed
\* orchestrator, or for a chat that has no session, leaves sandbox_status as
\* it is, starts no broadcast and commits no row.
C31_NoTurnWithoutSession ==
  [][\A m \in Msgs :
       /\ (tpc[m] = "start" /\ tpc'[m] # "start"
             /\ (killed \/ tchat[m] \notin DOMAIN chat_sockets)) =>
            /\ sandbox_status' = sandbox_status
            /\ em'[Turn(m)].phase = "idle"
       /\ (tpc[m] \in {"start", "persist_in"} /\ killed) => db'[m] = db[m]]_vars

\* Agent.step has returned or raised.
StepOver == apc \in {"ended", "delta_raised", "tool_raised", "run_raised", "plan_raised"}

\* C32: when every completion stream ends and only finitely many of them end
\* with the tool-calls terminus, Agent.step eventually returns or raises,
\* whatever the finish reasons of the streams.
C32_StepTerminates == <>StepOver

\* What create_chat deducted by the step: nothing, the chat cost from the
\* team's credits, or the chat cost from today's pool.
PoolBefore == IF persisted.pool_row THEN persisted.credits_remaining ELSE DailyPool
NothingDeducted ==
  /\ persisted'.credits = persisted.credits
  /\ persisted'.pool_row => persisted'.credits_remaining = PoolBefore
  /\ ~persisted'.pool_row => ~persisted.pool_row
TeamCharged ==
  /\ persisted'.credits + ChatCost = persisted.credits
  /\ persisted'.pool_row => persisted'.credits_remaining = PoolBefore
PoolCharged ==
  /\ persisted'.credits = persisted.credits
  /\ persisted'.pool_row
  /\ persisted'.credits_remaining + ChatCost = PoolBefore

\* C33: a create_chat that answers 402, or 400 because the commit of the chat
\* raised, leaves no new project, no new chat and no deduction behind; one
\* that succeeds adds one chat and deducts the chat cost from exactly one of
\* the team's credits and the daily pool; neither ever becomes negative.
C33_CreateChatAllOrNothing ==
  [][\A r \in Calls :
       (calls[r].pc = "naming" /\ calls'[r].pc = "done") =>
         /\ (calls'[r].status = "402" \/ calls'[r].why = "commit") =>
              /\ persisted'.projects = persisted.projects
              /\ persisted'.chats = persisted.chats
              /\ NothingDeducted
         /\ calls'[r].status = "200" =>
              /\ persisted'.chats = persisted.chats + 1
              /\ TeamCharged \/ PoolCharged
         /\ persisted'.credits >= 0
         /\ persisted'.credits_remaining >= 0]_vars
=============================================================================
